---- MODULE Spec2Model ----
(***************************************************************************)
(* Forward-chaining proof search of MiniAxiom: the expression model, the   *)
(* substitution and pattern matcher, the rule applicator and the           *)
(* ForwardChainer.prove loop, as a state machine.                          *)
(*                                                                         *)
(* A Python set enumerates its members in an order the language leaves     *)
(* open, stable only while the set is not modified.  A set is therefore    *)
(* modelled by the sequence in which iteration visits it; copying a set or *)
(* adding a member to it yields any enumeration of the resulting members.  *)
(***************************************************************************)
EXTENDS Integers, Sequences, FiniteSets, TLC

(***************************************************************************)
(* Bounds of the model.                                                    *)
(***************************************************************************)
MaxInitialFacts == 2
MaxIterationsBound == 3
MaxFactsBound == 3
MaxTargets == 3
MaxListed == 3

(***************************************************************************)
(* formal/expressions.py: Number, Variable, Operation, Fact, Rule.         *)
(***************************************************************************)
Number(v) == [type |-> "Number", value |-> v]
Variable(n) == [type |-> "Variable", name |-> n]
Operation(l, o, r) == [type |-> "Operation", left |-> l, operator |-> o, right |-> r]
Fact(p, args) == [predicate |-> p, arguments |-> args]
Rule(prem, concl, n) == [premises |-> prem, conclusion |-> concl, name |-> n]

\* Names for which name.isupper() or name.startswith('_') holds.
UpperNames == {"X", "Y", "Z", "A", "B", "C"}
IsPatternVariable(name) == name \in UpperNames

(***************************************************************************)
(* reasoning/pattern_matching.py: Substitution.                            *)
(* A Substitution is its mappings dict: a function from names to           *)
(* expressions.  Optional[T] is a sequence: <<>> for None, <<v>> for v.    *)
(***************************************************************************)
None == <<>>
Some(v) == <<v>>
IsNone(o) == o = <<>>
TheValue(o) == o[1]

\* The value of an expression with a local variable, The({e : v \in {value}}):
\* the value is computed once, then e uses it.
The(S) == CHOOSE r \in S : TRUE

EmptySubstitution == [mappings |-> <<>>]

\* Mutant of Bind: the binding is not stored.
Bind_nothing(m, name, e) == m

\* m[name] = e on a dict
Bind(m, name, e) == [n \in (DOMAIN m) \cup {name} |-> IF n = name THEN e ELSE m[n]]

\* Mutant of add_mapping: a bound name is bound anew.
add_mapping_overwriting(s, variable, expression) ==
    <<TRUE, [mappings |-> Bind(s.mappings, variable, expression)]>>

\* add_mapping: <<ok, substitution afterwards>>
add_mapping(s, variable, expression) ==
    IF variable \in DOMAIN s.mappings
    THEN <<s.mappings[variable] = expression, s>>
    ELSE <<TRUE, [mappings |-> Bind(s.mappings, variable, expression)]>>

RECURSIVE apply_to_expression(_, _)
apply_to_expression(s, expression) ==
    CASE expression.type = "Variable" ->
            IF expression.name \in DOMAIN s.mappings
            THEN s.mappings[expression.name]
            ELSE expression
      [] expression.type = "Number" -> expression
      [] expression.type = "Operation" ->
            Operation(apply_to_expression(s, expression.left),
                      expression.operator,
                      apply_to_expression(s, expression.right))

apply_to_fact(s, fact) ==
    Fact(fact.predicate,
         [i \in 1..Len(fact.arguments) |-> apply_to_expression(s, fact.arguments[i])])

\* merge: add the other's mappings one by one; None on the first conflict.
\* The outcome does not depend on the order of other.mappings.
merge(s, other) ==
    IF \A v \in DOMAIN other.mappings : add_mapping(s, v, other.mappings[v])[1]
    THEN Some([mappings |->
                 [n \in (DOMAIN s.mappings) \cup (DOMAIN other.mappings) |->
                     IF n \in DOMAIN s.mappings THEN s.mappings[n]
                     ELSE other.mappings[n]]])
    ELSE None

(***************************************************************************)
(* reasoning/pattern_matching.py: PatternMatcher.                          *)
(***************************************************************************)
RECURSIVE match_expression_recursive(_, _, _)
match_expression_recursive(pattern, target, substitution) ==
    CASE pattern.type = "Variable" ->
            IF IsPatternVariable(pattern.name)
            THEN IF pattern.name \in DOMAIN substitution.mappings
                 THEN IF substitution.mappings[pattern.name] = target
                      THEN Some(substitution)
                      ELSE None
                 ELSE Some([mappings |-> Bind(substitution.mappings, pattern.name, target)])
            ELSE IF target.type = "Variable" /\ pattern.name = target.name
                 THEN Some(substitution)
                 ELSE None
      [] pattern.type = "Number" ->
            IF target.type = "Number" /\ pattern.value = target.value
            THEN Some(substitution)
            ELSE None
      [] pattern.type = "Operation" ->
            IF target.type # "Operation" THEN None
            ELSE IF pattern.operator # target.operator THEN None
            ELSE The({IF IsNone(left_match) THEN None
                      ELSE match_expression_recursive(pattern.right, target.right,
                                                      TheValue(left_match)) :
                        left_match \in
                            {match_expression_recursive(pattern.left, target.left,
                                                        substitution)}})

\* Mutant of match_expression: a concrete variable standing alone is bound like
\* a pattern variable.
match_expression_binding(pattern, target) ==
    IF pattern.type = "Variable" /\ ~IsPatternVariable(pattern.name)
    THEN Some([mappings |-> Bind(<<>>, pattern.name, target)])
    ELSE match_expression_recursive(pattern, target, EmptySubstitution)

match_expression(pattern, target) ==
    match_expression_recursive(pattern, target, EmptySubstitution)

\* The loop of match_fact over zip(pattern.arguments, target.arguments), from
\* argument i on, with the substitution merged so far.
RECURSIVE match_arguments(_, _, _, _)
match_arguments(pattern, target, i, substitution) ==
    IF i > Len(pattern.arguments) THEN Some(substitution)
    ELSE The({IF IsNone(arg_match) THEN None
              ELSE The({IF IsNone(merged) THEN None
                        ELSE match_arguments(pattern, target, i + 1, TheValue(merged)) :
                          merged \in {merge(substitution, TheValue(arg_match))}}) :
                arg_match \in {match_expression(pattern.arguments[i],
                                                target.arguments[i])}})

match_fact(pattern, target) ==
    IF pattern.predicate # target.predicate THEN None
    ELSE IF Len(pattern.arguments) # Len(target.arguments) THEN None
    ELSE match_arguments(pattern, target, 1, EmptySubstitution)

\* A Python set is modelled by the sequence in which iterating over it visits
\* its members: no member twice, and the order stable while the set is not
\* modified.  A set that has just been built visits its members in an order
\* the language leaves open.
Members(set) == {set[i] : i \in DOMAIN set}

\* The enumerations of a set of values: every order in which a Python set
\* holding them may visit them.
RECURSIVE Enumerations(_)
Enumerations(S) ==
    IF S = {} THEN {<<>>}
    ELSE UNION {{<<v>> \o rest : rest \in Enumerations(S \ {v})} : v \in S}

\* Mutant of SetAdds: the new fact replaces the set instead of joining it.
SetAdds_replacing(set, member) == Enumerations({member})

\* Mutant of SetDifference: the member is not taken out.
SetDifference_keeping(set, member) == Members(set)

\* set.copy() and set.add(member): the set afterwards, in any enumeration
SetCopies(S) == Enumerations(S)
SetAdds(set, member) == Enumerations(Members(set) \cup {member})
\* set - {member}: the members of the set this builds
SetDifference(set, member) == Members(set) \ {member}

\* "for remaining_match in remaining_matches", from the j-th one on: the merges
\* that succeed, in order.
RECURSIVE merge_remaining(_, _, _)
merge_remaining(first_match, remaining_matches, j) ==
    IF j > Len(remaining_matches) THEN <<>>
    ELSE The({IF IsNone(merged) THEN <<>> ELSE <<TheValue(merged)>> :
                merged \in {merge(first_match, remaining_matches[j])}})
         \o merge_remaining(first_match, remaining_matches, j + 1)

\* The lists found[i] \o found[i+1] \o ..., one list taken from each set.
RECURSIVE Concatenations(_, _)
Concatenations(found, i) ==
    IF i > Len(found) THEN {<<>>}
    ELSE {matches \o later : matches \in found[i][2],
                             later \in Concatenations(found, i + 1)}

\* match_facts_list returns one of several lists, according to the order in
\* which the sets "targets - {target}" it builds enumerate their members.
\*   match_facts_list(patterns, targets): the lists it may return on a set that
\*       enumerates as targets;
\*   match_targets_from: "for target in targets" from the i-th target on;
\*   match_target: the body of that loop, the matches one target may add;
\*   merged_matches(first_match, remaining_patterns, S): lines 220-228, the
\*       merges of first_match with the matches of remaining_patterns on a set
\*       just built of the members S, in whatever order that set enumerates.
\*       A target of S that adds no merged match adds none wherever it comes
\*       in that order, so only the targets that add some are put in every
\*       order.
RECURSIVE match_facts_list(_, _), match_targets_from(_, _, _),
          match_target(_, _, _), merged_matches(_, _, _)
match_facts_list(patterns, targets) ==
    IF patterns = <<>> THEN {<<EmptySubstitution>>}
    ELSE The({match_targets_from(patterns, ts, 1) : ts \in {targets}})

match_targets_from(patterns, targets, i) ==
    IF i > Len(targets) THEN {<<>>}
    ELSE {matches \o later :
            matches \in match_target(patterns, targets[i],
                                     SetDifference(targets, targets[i])),
            later \in match_targets_from(patterns, targets, i + 1)}

match_target(patterns, target, remaining_targets) ==
    The({IF IsNone(first_match) THEN {<<>>}
         ELSE IF Len(patterns) = 1 THEN {<<TheValue(first_match)>>}
         ELSE merged_matches(TheValue(first_match), Tail(patterns), remaining_targets) :
           first_match \in {match_fact(patterns[1], target)}})

merged_matches(first_match, remaining_patterns, S) ==
    LET adding ==
            {found \in
                {<<t, {merge_remaining(first_match, remaining_matches, 1) :
                         remaining_matches \in
                             match_target(remaining_patterns, t, S \ {t})}>> :
                   t \in S} :
               found[2] # {<<>>}}
    IN  UNION {Concatenations(order, 1) : order \in Enumerations(adding)}

find_rule_matches(rule_premises, available_facts) ==
    match_facts_list(rule_premises, available_facts)

(***************************************************************************)
(* reasoning/pattern_matching.py: RuleApplicator.                          *)
(***************************************************************************)
\* Mutant of new_facts_of: the test "new_fact not in available_facts" left out.
RECURSIVE new_facts_of_unfiltered(_, _, _, _)
new_facts_of_unfiltered(rule, available_facts, substitutions, j) ==
    IF j > Len(substitutions) THEN <<>>
    ELSE <<apply_to_fact(substitutions[j], rule.conclusion)>>
         \o new_facts_of_unfiltered(rule, available_facts, substitutions, j + 1)

\* "for substitution in substitutions" of apply_rule, from the j-th one on
RECURSIVE new_facts_of(_, _, _, _)
new_facts_of(rule, available_facts, substitutions, j) ==
    IF j > Len(substitutions) THEN <<>>
    ELSE The({IF new_fact \notin Members(available_facts) THEN <<new_fact>> ELSE <<>> :
                new_fact \in {apply_to_fact(substitutions[j], rule.conclusion)}})
         \o new_facts_of(rule, available_facts, substitutions, j + 1)

\* apply_rule: the lists it may return, one for each list of substitutions
\* find_rule_matches may return
apply_rule(rule, available_facts) ==
    {new_facts_of(rule, available_facts, substitutions, 1) :
       substitutions \in find_rule_matches(rule.premises, available_facts)}

\* can_apply_rule: the number of matches is the same in whatever order they come
can_apply_rule(rule, available_facts) ==
    \E substitutions \in find_rule_matches(rule.premises, available_facts) :
        Len(substitutions) > 0

(***************************************************************************)
(* reasoning/proof_engine.py: ProofStep, ProofResult, ForwardChainer.      *)
(***************************************************************************)
ProofStep(rule, premises, derived, n) ==
    [rule_applied |-> rule, premises_used |-> premises,
     derived_fact |-> derived, step_number |-> n]

\* Mutant of create_proof_step: the test on rule_matches inverted, so that the
\* patterns are recorded in place of the matched facts.
create_proof_step_patterns(rule, facts, derived_fact, step_number) ==
    {ProofStep(rule, rule.premises, derived_fact, step_number)}

\* _create_proof_step: the steps it may return, one for each list of matches
\* find_rule_matches may return
create_proof_step(rule, facts, derived_fact, step_number) ==
    {LET substitution == rule_matches[1]
         premises_used ==
             IF rule_matches = <<>> THEN rule.premises
             ELSE [i \in 1..Len(rule.premises) |->
                     LET concrete_premise ==
                             apply_to_fact(substitution, rule.premises[i])
                     IN  IF concrete_premise \in Members(facts)
                         THEN concrete_premise
                         ELSE rule.premises[i]]
     IN  ProofStep(rule, premises_used, derived_fact, step_number) :
       rule_matches \in find_rule_matches(rule.premises, facts)}

ProofResult(success, goal_achieved, steps, final_facts, iterations_used, error_message) ==
    [success |-> success, goal_achieved |-> goal_achieved, steps |-> steps,
     final_facts |-> Members(final_facts), iterations_used |-> iterations_used,
     error_message |-> error_message]

\* reset_statistics
ResetStatistics ==
    [iterations |-> 0, rules_applied |-> 0, facts_derived |-> 0,
     rule_applications |-> <<>>]

\* The statistics update after a derivation by the rule named rule_name.
CountDerivation(st, rule_name) ==
    [st EXCEPT !.facts_derived = @ + 1,
               !.rules_applied = @ + 1,
               !.rule_applications =
                   Bind(@, rule_name,
                        (IF rule_name \in DOMAIN @ THEN @[rule_name] ELSE 0) + 1)]

\* Mutants of the return statements: the goal-already-known return reports an
\* iteration; the fact-limit return reports success; the end-of-search return
\* reports failure; the error return drops the steps.
TrivialResult_counting(facts) ==
    ProofResult(TRUE, TRUE, <<>>, facts, 1, None)
FactLimitResult_succeeding(steps, facts, iter, limit) ==
    ProofResult(TRUE, FALSE, steps, facts, iter + 1, None)
ExhaustedResult_failing(steps, facts, st) ==
    ProofResult(FALSE, FALSE, steps, facts, st.iterations, None)
ErrorResult_dropping(steps, facts, st, message) ==
    ProofResult(FALSE, FALSE, <<>>, facts, st.iterations, Some(message))

\* The five return statements of prove.
TrivialResult(facts) ==
    ProofResult(TRUE, TRUE, <<>>, facts, 0, None)
\* Mutant of GoalResult: the goal is derived but not reported.
GoalResult_unreported(steps, facts, iter) ==
    ProofResult(TRUE, FALSE, steps, facts, iter + 1, None)

GoalResult(steps, facts, iter) ==
    ProofResult(TRUE, TRUE, steps, facts, iter + 1, None)
FactLimitResult(steps, facts, iter, limit) ==
    ProofResult(FALSE, FALSE, steps, facts, iter + 1,
                Some("Too many facts generated (>" \o ToString(limit) \o ")"))
ExhaustedResult(steps, facts, st) ==
    ProofResult(TRUE, FALSE, steps, facts, st.iterations, None)
ErrorResult(steps, facts, st, message) ==
    ProofResult(FALSE, FALSE, steps, facts, st.iterations, Some(message))

(***************************************************************************)
(* The facts, goals and rule lists prove is called with.                   *)
(***************************************************************************)
a == Variable("a")
b == Variable("b")
c == Variable("c")
x == Variable("x")
X == Variable("X")
Y == Variable("Y")
Z == Variable("Z")
A == Variable("A")
B == Variable("B")
C == Variable("C")

eq(l, r) == Fact("eq", <<l, r>>)
gt(l, r) == Fact("gt", <<l, r>>)
lt(l, r) == Fact("lt", <<l, r>>)
gte(l, r) == Fact("gte", <<l, r>>)
lte(l, r) == Fact("lte", <<l, r>>)
divides(l, r) == Fact("divides", <<l, r>>)
multiple(l, r) == Fact("multiple", <<l, r>>)
positive(e) == Fact("positive", <<e>>)
even(e) == Fact("even", <<e>>)
odd(e) == Fact("odd", <<e>>)
prime(e) == Fact("prime", <<e>>)

\* rules.py: the catalog rules used here
subtraction_property ==
    Rule(<<eq(Operation(X, "+", A), B)>>, eq(X, Operation(B, "-", A)),
         "subtraction_property")
equality_symmetry == Rule(<<eq(X, Y)>>, eq(Y, X), "equality_symmetry")

\* MathematicalRules._rules after _initialize_rules: the rules in the order they
\* are put in
MathematicalRules ==
    <<
      subtraction_property,
      Rule(<<eq(Operation(A, "*", X), B)>>, eq(X, Operation(B, "/", A)),
           "division_property"),
      Rule(<<eq(X, A), eq(X, B)>>, eq(A, B), "equality_transitivity"),
      Rule(<<eq(X, A)>>, eq(Operation(X, "+", B), Operation(A, "+", B)),
           "addition_property"),
      Rule(<<eq(X, A)>>, eq(Operation(X, "*", B), Operation(A, "*", B)),
           "multiplication_property"),
      equality_symmetry,
      Rule(<<eq(X, Operation(Number(2), "*", Y))>>, even(X),
           "even_definition"),
      Rule(<<eq(X, Operation(Operation(Number(2), "*", Y), "+", Number(1)))>>, odd(X),
           "odd_definition"),
      Rule(<<even(X)>>, even(Operation(X, "*", Y)), "even_multiplication"),
      Rule(<<odd(X), odd(Y)>>, odd(Operation(X, "*", Y)),
           "odd_multiplication"),
      Rule(<<even(X), even(Y)>>, even(Operation(X, "+", Y)),
           "even_addition"),
      Rule(<<odd(X), odd(Y)>>, even(Operation(X, "+", Y)),
           "odd_addition_even"),
      Rule(<<even(X), odd(Y)>>, odd(Operation(X, "+", Y)),
           "even_odd_addition"),
      Rule(<<even(X)>>, even(Operation(X, "*", X)), "even_square"),
      Rule(<<odd(X)>>, odd(Operation(X, "*", X)), "odd_square"),
      Rule(<<gt(X, Y), gt(Y, Z)>>, gt(X, Z), "greater_transitivity"),
      Rule(<<eq(X, Y), gt(Y, Z)>>, gt(X, Z), "equality_substitution_gt"),
      Rule(<<lt(X, Y), lt(Y, Z)>>, lt(X, Z), "less_transitivity"),
      Rule(<<gte(X, Y), gte(Y, Z)>>, gte(X, Z), "gte_transitivity"),
      Rule(<<lte(X, Y), lte(Y, Z)>>, lte(X, Z), "lte_transitivity"),
      Rule(<<gt(X, Y)>>, lt(Y, X), "gt_lt_relationship"),
      Rule(<<divides(A, B), divides(B, C)>>, divides(A, C),
           "divisibility_transitivity"),
      Rule(<<multiple(X, Y)>>, divides(Y, X), "multiple_divides"),
      Rule(<<divides(A, B)>>, divides(A, Operation(B, "*", C)),
           "divisibility_multiplication"),
      Rule(<<prime(X), gt(X, Number(2))>>, odd(X), "prime_not_even")
    >>

get_all_rules == MathematicalRules
list_rule_names == [i \in DOMAIN MathematicalRules |-> MathematicalRules[i].name]

\* tests/test_pattern_matching.py, test_avoid_duplicate_facts: the identity rule
identity_rule == Rule(<<gt(X, Y)>>, gt(X, Y), "identity_rule")
\* tests/test_proof_engine.py: the rules the tests build
transitivity_xy_yz == Rule(<<eq(X, Y), eq(Y, Z)>>, eq(X, Z), "transitivity_xy_yz")
rule1 == Rule(<<eq(X, Y)>>, gt(X, Number(0)), "rule1")
rule2 == Rule(<<gt(X, Number(0))>>, positive(X), "rule2")

FactPool ==
    {eq(a, b), eq(b, c), eq(a, c), eq(Operation(x, "+", Number(3)), Number(7))}
Goals == {eq(x, Number(4)), eq(a, c), positive(a)}
RuleLists ==
    {<<>>,
     <<subtraction_property>>,
     <<transitivity_xy_yz>>,
     <<rule1, rule2>>,
     <<rule2, rule1>>,
     <<equality_symmetry, rule1>>,
     <<equality_symmetry, transitivity_xy_yz>>}
InitialFactSets == {F \in SUBSET FactPool : Cardinality(F) <= MaxInitialFacts}
ExceptionMessages == {"", "fault"}

(***************************************************************************)
(* State.                                                                  *)
(***************************************************************************)
VARIABLES
    pc,              \* where prove stands: idle, loop, rules, facts, returned
    max_iterations,  \* ForwardChainer.max_iterations
    max_facts,       \* ForwardChainer.max_facts
    stats,           \* ForwardChainer.stats
    goal,            \* the arguments of the call
    initial_facts,
    rules,
    current_facts,   \* locals of prove
    proof_steps,
    iteration,
    facts_at_start,
    rule_index,      \* position of "for rule in rules" (1-based)
    new_facts,       \* what "for new_fact in new_facts" has still to visit
    result,          \* the ProofResult returned
    outcome,         \* which return statement produced it
    previous,        \* the ProofResult of the call before
    s1, s2,          \* two Substitution objects
    active_rules,    \* RuleSystem.active_rules
    called,          \* the function or method called outside prove, "none" if none
    given,           \* the arguments it was given
    returned,        \* what it returned, None while it has not
    raised,          \* the message of the error it raised, None if it raised none
    thread2          \* the arguments, locals and result of a second thread's prove

vars == <<pc, max_iterations, max_facts, stats, goal, initial_facts, rules,
          current_facts, proof_steps, iteration, facts_at_start, rule_index,
          new_facts, result, outcome, previous,
          s1, s2, active_rules, called, given, returned, raised, thread2>>

args == <<goal, initial_facts, rules>>
limits == <<max_iterations, max_facts>>
\* what is outside the ForwardChainer, and what a second thread holds
elsewhere == <<s1, s2, active_rules, called, given, returned, raised, thread2>>
kept == <<max_iterations, max_facts, previous, elsewhere>>

\* what a thread holds of prove while it does not run: where it stands, the
\* arguments, the locals, the result
Frame ==
    [pc |-> pc, goal |-> goal, initial_facts |-> initial_facts, rules |-> rules,
     current_facts |-> current_facts, proof_steps |-> proof_steps,
     iteration |-> iteration, facts_at_start |-> facts_at_start,
     rule_index |-> rule_index, new_facts |-> new_facts, result |-> result,
     outcome |-> outcome]

\* Substitution.__init__ (twice) and RuleSystem.__init__; nothing has returned
\* or raised; the second thread has not called prove
Constructed ==
    /\ thread2 = [pc |-> "idle", goal |-> None, initial_facts |-> {},
                  rules |-> <<>>, current_facts |-> <<>>, proof_steps |-> <<>>,
                  iteration |-> 0, facts_at_start |-> 0, rule_index |-> 0,
                  new_facts |-> <<>>, result |-> None, outcome |-> "none"]
    /\ s1 = EmptySubstitution
    /\ s2 = EmptySubstitution
    /\ active_rules = Members(list_rule_names)
    /\ returned = None
    /\ raised = None

\* the ForwardChainer, but for its limits
chainer == <<pc, stats, goal, initial_facts, rules, current_facts, proof_steps,
             iteration, facts_at_start, rule_index, new_facts, result, outcome,
             previous>>

\* ForwardChainer.__init__ but for the limits: prove has not been called
Idle ==
    /\ pc = "idle"
    /\ stats = ResetStatistics
    /\ goal = None
    /\ initial_facts = {}
    /\ rules = <<>>
    /\ current_facts = <<>>
    /\ proof_steps = <<>>
    /\ iteration = 0
    /\ facts_at_start = 0
    /\ rule_index = 0
    /\ new_facts = <<>>
    /\ result = None
    /\ outcome = "none"
    /\ previous = None

\* ForwardChainer.__init__ with its limits; no call is made outside prove
Init ==
    /\ Constructed
    /\ called = "none"
    /\ given = <<>>
    /\ max_iterations \in 0..MaxIterationsBound
    /\ max_facts \in 0..MaxFactsBound
    /\ Idle

\* Mutant of in_range: the loop bound off by one.
in_range_inclusive(i, n) == i <= n

\* Mutant of is_goal: the facts are compared after the arithmetic on numbers is
\* carried out.
RECURSIVE Evaluated(_)
Evaluated(e) ==
    IF e.type # "Operation" THEN e
    ELSE LET l == Evaluated(e.left)
             r == Evaluated(e.right)
         IN  IF l.type = "Number" /\ r.type = "Number" /\ e.operator \in {"+", "-"}
             THEN Number(IF e.operator = "+" THEN l.value + r.value
                         ELSE l.value - r.value)
             ELSE Operation(l, e.operator, r)
is_goal_evaluating(new_fact, g) ==
    /\ new_fact.predicate = g.predicate
    /\ Len(new_fact.arguments) = Len(g.arguments)
    /\ \A i \in DOMAIN g.arguments :
           Evaluated(new_fact.arguments[i]) = Evaluated(g.arguments[i])

\* i in range(n), for the i the loop has counted up to
in_range(i, n) == i < n

\* if new_fact == goal (Fact.__eq__: predicate and arguments equal, structurally)
is_goal(new_fact, g) == new_fact = g

\* A return statement: the result goes to the caller, the locals of prove are gone.
Return(r, how) ==
    /\ pc' = "returned"
    /\ result' = Some(r)
    /\ outcome' = how
    /\ current_facts' = <<>>
    /\ proof_steps' = <<>>
    /\ iteration' = 0
    /\ facts_at_start' = 0
    /\ rule_index' = 0
    /\ new_facts' = <<>>

\* Mutant of Call: the statistics of the call before are not reset.
Call_keeping(g, F, R) ==
    /\ goal' = Some(g)
    /\ initial_facts' = F
    /\ rules' = R
    /\ stats' = stats
    /\ \E copy \in SetCopies(F) :
          IF g \in Members(copy)
          THEN Return(TrivialResult(copy), "Trivial")
          ELSE /\ current_facts' = copy
               /\ proof_steps' = <<>>
               /\ pc' = "loop"
               /\ UNCHANGED <<iteration, facts_at_start, rule_index, new_facts,
                              result, outcome>>
    /\ UNCHANGED limits

\* Mutant of Call: the fact limit is checked on the initial facts.
Call_limit_checked(g, F, R) ==
    /\ goal' = Some(g)
    /\ initial_facts' = F
    /\ rules' = R
    /\ stats' = ResetStatistics
    /\ \E copy \in SetCopies(F) :
          IF g \in Members(copy)
          THEN Return(TrivialResult(copy), "Trivial")
          ELSE IF Len(copy) > max_facts
          THEN Return(FactLimitResult(<<>>, copy, 0, max_facts), "FactLimit")
          ELSE /\ current_facts' = copy
               /\ proof_steps' = <<>>
               /\ pc' = "loop"
               /\ UNCHANGED <<iteration, facts_at_start, rule_index, new_facts,
                              result, outcome>>
    /\ UNCHANGED limits

\* prove, lines 88-106: reset, copy the facts, the goal-already-known check.
Call(g, F, R) ==
    /\ goal' = Some(g)
    /\ initial_facts' = F
    /\ rules' = R
    /\ stats' = ResetStatistics
    /\ \E copy \in SetCopies(F) :
          IF g \in Members(copy)
          THEN Return(TrivialResult(copy), "Trivial")
          ELSE /\ current_facts' = copy
               /\ proof_steps' = <<>>
               /\ pc' = "loop"
               /\ UNCHANGED <<iteration, facts_at_start, rule_index, new_facts,
                              result, outcome>>
    /\ UNCHANGED limits

\* The first call of prove on the instance.
Prove(g, F, R) ==
    /\ pc = "idle"
    /\ Call(g, F, R)
    /\ UNCHANGED <<previous, elsewhere>>

\* The caller calls prove once more, with the arguments of the call that returned.
ProveAgain ==
    /\ pc = "returned"
    /\ IsNone(previous)
    /\ previous' = result
    /\ Call(TheValue(goal), initial_facts, rules)
    /\ UNCHANGED elsewhere

\* Mutant of BeginIteration: the iteration is not written to the statistics.
BeginIteration_uncounted ==
    /\ pc = "loop"
    /\ in_range(iteration, max_iterations)
    /\ stats' = stats
    /\ facts_at_start' = Len(current_facts)
    /\ rule_index' = 1
    /\ pc' = "rules"
    /\ UNCHANGED <<kept, args, current_facts, proof_steps, iteration, new_facts,
                   result, outcome>>

\* for iteration in range(self.max_iterations): one more iteration begins
BeginIteration ==
    /\ pc = "loop"
    /\ in_range(iteration, max_iterations)
    /\ stats' = [stats EXCEPT !.iterations = iteration + 1]
    /\ facts_at_start' = Len(current_facts)
    /\ rule_index' = 1
    /\ pc' = "rules"
    /\ UNCHANGED <<kept, args, current_facts, proof_steps, iteration, new_facts,
                   result, outcome>>

\* the range is used up: fall through to the return of lines 174-183
LoopExhausted ==
    /\ pc = "loop"
    /\ ~in_range(iteration, max_iterations)
    /\ Return(ExhaustedResult(proof_steps, current_facts, stats), "IterationLimit")
    /\ UNCHANGED <<kept, args, stats>>

\* if not can_apply_rule(rule, current_facts): continue
SkipRule ==
    /\ pc = "rules"
    /\ rule_index <= Len(rules)
    /\ ~can_apply_rule(rules[rule_index], current_facts)
    /\ rule_index' = rule_index + 1
    /\ UNCHANGED <<pc, kept, args, stats, current_facts, proof_steps, iteration,
                   facts_at_start, new_facts, result, outcome>>

\* Mutant of ApplyRule: the rule is applied to the facts the iteration began
\* with.
ApplyRule_frozen ==
    /\ pc = "rules"
    /\ rule_index <= Len(rules)
    /\ can_apply_rule(rules[rule_index], current_facts)
    /\ \E snapshot \in Enumerations(
              initial_facts \cup
              {proof_steps[i].derived_fact :
                  i \in 1..(facts_at_start - Cardinality(initial_facts))}) :
       \E derived \in apply_rule(rules[rule_index], snapshot) :
          IF derived = <<>>
          THEN /\ rule_index' = rule_index + 1
               /\ UNCHANGED <<pc, new_facts>>
          ELSE /\ new_facts' = derived
               /\ pc' = "facts"
               /\ UNCHANGED rule_index
    /\ UNCHANGED <<kept, args, stats, current_facts, proof_steps, iteration,
                   facts_at_start, result, outcome>>

\* new_facts = apply_rule(rule, current_facts)
ApplyRule ==
    /\ pc = "rules"
    /\ rule_index <= Len(rules)
    /\ can_apply_rule(rules[rule_index], current_facts)
    /\ \E derived \in apply_rule(rules[rule_index], current_facts) :
          IF derived = <<>>
          THEN /\ rule_index' = rule_index + 1
               /\ UNCHANGED <<pc, new_facts>>
          ELSE /\ new_facts' = derived
               /\ pc' = "facts"
               /\ UNCHANGED rule_index
    /\ UNCHANGED <<kept, args, stats, current_facts, proof_steps, iteration,
                   facts_at_start, result, outcome>>

\* The inner loop moves on: to the next new fact, or to the next rule.
NextNewFact ==
    /\ new_facts' = Tail(new_facts)
    /\ IF Tail(new_facts) = <<>>
       THEN /\ pc' = "rules"
            /\ rule_index' = rule_index + 1
       ELSE UNCHANGED <<pc, rule_index>>

\* if new_fact not in current_facts: fails, nothing is done for this fact
SkipKnownFact ==
    /\ pc = "facts"
    /\ Head(new_facts) \in Members(current_facts)
    /\ NextNewFact
    /\ UNCHANGED <<kept, args, stats, current_facts, proof_steps, iteration,
                   facts_at_start, result, outcome>>

\* Mutant of DeriveFact: a fact is recorded whether or not the working set has
\* it.
DeriveFact_known ==
    /\ pc = "facts"
    /\ \E step \in create_proof_step(rules[rule_index], current_facts,
                                      Head(new_facts), Len(proof_steps) + 1) :
       LET rule == rules[rule_index]
           new_fact == Head(new_facts)
           steps == Append(proof_steps, step)
           added == Append(current_facts, new_fact)
       IN  /\ stats' = CountDerivation(stats, rule.name)
           /\ IF is_goal(new_fact, TheValue(goal))
              THEN Return(GoalResult(steps, added, iteration), "GoalAchieved")
              ELSE IF Len(added) > max_facts
              THEN Return(FactLimitResult(steps, added, iteration, max_facts), "FactLimit")
              ELSE /\ proof_steps' = steps
                   /\ current_facts' \in SetAdds(current_facts, new_fact)
                   /\ NextNewFact
                   /\ UNCHANGED <<iteration, facts_at_start, result, outcome>>
    /\ UNCHANGED <<kept, args>>

\* Mutant of DeriveFact: the fact limit is checked before the goal.
DeriveFact_limit_first ==
    /\ pc = "facts"
    /\ Head(new_facts) \notin Members(current_facts)
    /\ \E step \in create_proof_step(rules[rule_index], current_facts,
                                      Head(new_facts), Len(proof_steps) + 1) :
       LET rule == rules[rule_index]
           new_fact == Head(new_facts)
           steps == Append(proof_steps, step)
           added == Append(current_facts, new_fact)
       IN  /\ stats' = CountDerivation(stats, rule.name)
           /\ IF Len(added) > max_facts
              THEN Return(FactLimitResult(steps, added, iteration, max_facts), "FactLimit")
              ELSE IF is_goal(new_fact, TheValue(goal))
              THEN Return(GoalResult(steps, added, iteration), "GoalAchieved")
              ELSE /\ proof_steps' = steps
                   /\ current_facts' \in SetAdds(current_facts, new_fact)
                   /\ NextNewFact
                   /\ UNCHANGED <<iteration, facts_at_start, result, outcome>>
    /\ UNCHANGED <<kept, args>>

\* lines 126-167: record the step, insert the fact, count, check goal and limit
DeriveFact ==
    /\ pc = "facts"
    /\ Head(new_facts) \notin Members(current_facts)
    /\ \E step \in create_proof_step(rules[rule_index], current_facts,
                                      Head(new_facts), Len(proof_steps) + 1) :
       LET rule == rules[rule_index]
           new_fact == Head(new_facts)
           steps == Append(proof_steps, step)
           \* the set after current_facts.add(new_fact); a return does not
           \* enumerate it again, so there its order is of no account
           added == Append(current_facts, new_fact)
       IN  /\ stats' = CountDerivation(stats, rule.name)
           /\ IF is_goal(new_fact, TheValue(goal))
              THEN Return(GoalResult(steps, added, iteration), "GoalAchieved")
              ELSE IF Len(added) > max_facts
              THEN Return(FactLimitResult(steps, added, iteration, max_facts), "FactLimit")
              ELSE /\ proof_steps' = steps
                   /\ current_facts' \in SetAdds(current_facts, new_fact)
                   /\ NextNewFact
                   /\ UNCHANGED <<iteration, facts_at_start, result, outcome>>
    /\ UNCHANGED <<kept, args>>

\* Mutant of EndIteration: the search stops after an iteration that derived
\* something and goes on after one that derived nothing.
EndIteration_inverted ==
    /\ pc = "rules"
    /\ rule_index > Len(rules)
    /\ IF Len(current_facts) # facts_at_start
       THEN Return(ExhaustedResult(proof_steps, current_facts, stats), "Stuck")
       ELSE /\ iteration' = iteration + 1
            /\ pc' = "loop"
            /\ UNCHANGED <<current_facts, proof_steps, facts_at_start, rule_index,
                           new_facts, result, outcome>>
    /\ UNCHANGED <<kept, args, stats>>

\* lines 169-172 after the last rule: break when nothing was derived
EndIteration ==
    /\ pc = "rules"
    /\ rule_index > Len(rules)
    /\ IF Len(current_facts) = facts_at_start
       THEN Return(ExhaustedResult(proof_steps, current_facts, stats), "Stuck")
       ELSE /\ iteration' = iteration + 1
            /\ pc' = "loop"
            /\ UNCHANGED <<current_facts, proof_steps, facts_at_start, rule_index,
                           new_facts, result, outcome>>
    /\ UNCHANGED <<kept, args, stats>>

\* lines 185-195: an exception raised by matching, rule application or step
\* creation is caught
Fault(message) ==
    /\ \/ pc = "rules" /\ rule_index <= Len(rules)
       \/ pc = "facts" /\ Head(new_facts) \notin Members(current_facts)
    /\ Return(ErrorResult(proof_steps, current_facts, stats, message), "Error")
    /\ UNCHANGED <<kept, args, stats>>

\* prove runs on from where it stands
Search ==
    \/ BeginIteration
    \/ LoopExhausted
    \/ SkipRule
    \/ ApplyRule
    \/ SkipKnownFact
    \/ DeriveFact
    \/ EndIteration

Step ==
    \/ /\ pc = "idle"
       /\ \E g \in Goals, F \in InitialFactSets, R \in RuleLists : Prove(g, F, R)
    \/ Search

Next ==
    \/ \E message \in ExceptionMessages : Fault(message)
    \/ Step

Spec == Init /\ [][Next]_vars

\* prove is a synchronous call: once called it runs on until it returns.
FairSpec == Spec /\ WF_vars(Next)

\* Two calls with the same arguments, neither of them faulting.
NextRepeat ==
    \/ Step
    \/ ProveAgain

SpecRepeat == Init /\ [][NextRepeat]_vars

(***************************************************************************)
(* Call after call of prove on one instance, each with its own arguments.  *)
(***************************************************************************)
\* <<goal, initial_facts, rules>>
CallArguments ==
    {<<eq(a, c), {eq(a, b), eq(b, c)}, <<transitivity_xy_yz>>>>,
     <<positive(a), {eq(a, b), eq(a, c)}, <<rule2, rule1>>>>,
     <<eq(x, Number(4)), {eq(a, b), eq(a, c)}, <<equality_symmetry, rule1>>>>,
     <<eq(x, Number(4)), {eq(Operation(x, "+", Number(3)), Number(7))},
       <<subtraction_property>>>>,
     <<eq(a, c), {eq(a, c)}, <<>>>>}

\* The caller calls prove once more on the instance, keeping the result of the
\* call that returned.
ProveNext(g, F, R) ==
    /\ pc = "returned"
    /\ previous' = result
    /\ Call(g, F, R)
    /\ UNCHANGED elsewhere

NextCalls ==
    \/ \E arguments \in CallArguments :
          Prove(arguments[1], arguments[2], arguments[3])
    \/ \E arguments \in CallArguments :
          ProveNext(arguments[1], arguments[2], arguments[3])
    \/ Search
    \/ \E message \in ExceptionMessages : Fault(message)

SpecCalls == Init /\ [][NextCalls]_vars

(***************************************************************************)
(* Two threads, each calling prove once on the same instance.  Each has    *)
(* its own arguments and locals; self.stats and the limits are the         *)
(* instance's.  The variables of prove are those of the thread that runs;  *)
(* the interpreter may switch threads between any two steps.               *)
(***************************************************************************)
Switch ==
    /\ thread2' = Frame
    /\ pc' = thread2.pc
    /\ goal' = thread2.goal
    /\ initial_facts' = thread2.initial_facts
    /\ rules' = thread2.rules
    /\ current_facts' = thread2.current_facts
    /\ proof_steps' = thread2.proof_steps
    /\ iteration' = thread2.iteration
    /\ facts_at_start' = thread2.facts_at_start
    /\ rule_index' = thread2.rule_index
    /\ new_facts' = thread2.new_facts
    /\ result' = thread2.result
    /\ outcome' = thread2.outcome
    /\ UNCHANGED <<stats, limits, previous, s1, s2, active_rules, called, given,
                   returned, raised>>

\* what the two threads call prove with: a search that is stuck at once, one
\* that is stuck in its second iteration, one that reaches its goal in the second
ThreadArguments ==
    {<<positive(a), {eq(a, b)}, <<rule2>>>>,
     <<eq(x, Number(4)), {eq(Operation(x, "+", Number(3)), Number(7))},
       <<subtraction_property>>>>,
     <<positive(a), {eq(a, b), eq(a, c)}, <<rule2, rule1>>>>}

NextConcurrent ==
    \/ \E arguments \in ThreadArguments :
          Prove(arguments[1], arguments[2], arguments[3])
    \/ Search
    \/ Switch

SpecConcurrent == Init /\ [][NextConcurrent]_vars

(***************************************************************************)
(* The matcher and the applicator called on their own: match_expression,   *)
(* match_facts_list and apply_rule, each on the arguments it is given.     *)
(***************************************************************************)
Leaves == {X, Y, a, b, Number(1)}
Operations(L, R) == {Operation(l, o, r) : l \in L, o \in {"+", "*"}, r \in R}

\* tests/test_pattern_matching.py, test_match_operations: X * (Y + 1), and
\* patterns that repeat a pattern variable at different depths
Patterns ==
    Leaves \cup Operations(Leaves, Leaves)
           \cup {Operation(X, "*", Operation(Y, "+", Number(1))),
                 Operation(Operation(X, "+", Y), "*", X),
                 Operation(X, "*", Operation(X, "+", Y))}
Targets ==
    Leaves \cup Operations(Leaves, Leaves)
           \cup {Operation(Number(1), "*", Operation(a, "+", Number(1))),
                 Operation(Operation(a, "+", b), "*", a),
                 Operation(Operation(a, "+", b), "*", b),
                 Operation(a, "*", Operation(a, "+", b)),
                 Operation(b, "*", Operation(a, "+", b)),
                 Operation(Operation(a, "+", b), "*", Operation(a, "+", b))}

MatcherFacts == {eq(a, b), eq(b, c), eq(a, a), gt(b, c), gt(c, a), eq(a, Y)}
TargetSets ==
    UNION {Enumerations(F) : F \in {F \in SUBSET MatcherFacts :
                                        Cardinality(F) <= MaxTargets}}
PremiseLists ==
    {<<eq(X, Y)>>,
     <<eq(X, Y), eq(Y, Z)>>,
     <<eq(X, A), eq(X, B)>>,
     <<eq(X, Y), gt(Y, Z)>>,
     <<eq(X, Y), eq(Y, X)>>,
     <<eq(X, Y), eq(Y, Z), gt(Z, A)>>}
AppliedRules == Members(MathematicalRules) \cup {identity_rule, transitivity_xy_yz, rule1}
\* tests/test_pattern_matching.py, test_match_facts: facts of one and two
\* arguments, pattern variables alone, repeated and inside operations
FactPatterns ==
    {Fact(p, <<l, r>>) : p \in {"eq", "gt"},
                         l \in Leaves \cup {Operation(X, "+", Y)}, r \in Leaves}
        \cup {even(X), even(a), even(Operation(X, "*", X))}
FactTargets ==
    {Fact(p, <<l, r>>) : p \in {"eq", "gt"},
                         l \in Leaves \cup {Operation(a, "+", b), Operation(b, "+", Y)},
                         r \in Leaves}
        \cup {even(a), even(Y), even(Operation(a, "*", a)), even(Operation(a, "*", b))}

\* One call, with its arguments; no ForwardChainer takes part
InitMatcher ==
    /\ Constructed
    /\ \/ called = "match_expression" /\ given \in Patterns \X Targets
       \/ called = "match_fact" /\ given \in FactPatterns \X FactTargets
       \/ called = "match_facts_list" /\ given \in PremiseLists \X TargetSets
       \/ called = "apply_rule" /\ given \in AppliedRules \X TargetSets
    /\ max_iterations = 0
    /\ max_facts = 0
    /\ Idle

\* The call returns.
Returns(value) ==
    /\ IsNone(returned)
    /\ returned' = Some(value)
    /\ UNCHANGED <<chainer, limits, thread2, s1, s2, active_rules, called, given, raised>>

CallMatchExpression ==
    /\ called = "match_expression"
    /\ Returns(match_expression(given[1], given[2]))

CallMatchFact ==
    /\ called = "match_fact"
    /\ Returns(match_fact(given[1], given[2]))

CallMatchFactsList ==
    /\ called = "match_facts_list"
    /\ \E substitutions \in match_facts_list(given[1], given[2]) :
          Returns(substitutions)

CallApplyRule ==
    /\ called = "apply_rule"
    /\ \E derived \in apply_rule(given[1], given[2]) : Returns(derived)

NextMatcher ==
    \/ CallMatchExpression
    \/ CallMatchFact
    \/ CallMatchFactsList
    \/ CallApplyRule

SpecMatcher == InitMatcher /\ [][NextMatcher]_vars

(***************************************************************************)
(* Properties.                                                             *)
(***************************************************************************)
Returned == pc = "returned"
Running == pc \in {"loop", "rules", "facts"}
TheResult == TheValue(result)
TheGoal == TheValue(goal)

\* The substitution under which patterns[i..] instantiate to facts[i..], if any:
\* the matches of each pattern against its fact, merged.
RECURSIVE InstantiatingSubstitution(_, _, _, _)
InstantiatingSubstitution(patterns, facts, i, s) ==
    IF i > Len(patterns) THEN Some(s)
    ELSE LET m == match_fact(patterns[i], facts[i])
         IN  IF IsNone(m) THEN None
             ELSE LET merged == merge(s, TheValue(m))
                  IN  IF IsNone(merged) THEN None
                      ELSE InstantiatingSubstitution(patterns, facts, i + 1,
                                                     TheValue(merged))

\* The recorded premises are the ones that yield the recorded derived fact.
StepSound(step) ==
    /\ Len(step.premises_used) = Len(step.rule_applied.premises)
    /\ LET s == InstantiatingSubstitution(step.rule_applied.premises,
                                          step.premises_used, 1, EmptySubstitution)
       IN  /\ ~IsNone(s)
           /\ apply_to_fact(TheValue(s), step.rule_applied.conclusion) = step.derived_fact

\* C1: in every result of prove, each step's derived fact is the rule's
\* conclusion under a substitution that instantiates the rule's premises to the
\* step's recorded premises.
C1_DerivationSound ==
    Returned => \A k \in DOMAIN TheResult.steps : StepSound(TheResult.steps[k])

\* The facts known when step k of steps was created.
KnownBefore(steps, k) == initial_facts \cup {steps[j].derived_fact : j \in 1..(k - 1)}
StepsSoFar == IF Returned THEN TheResult.steps ELSE proof_steps

\* C2: each recorded premise is a member of the working set at the moment its
\* step is created, and there is one recorded premise per premise of the rule.
C2_PremisesPresent ==
    \A k \in DOMAIN StepsSoFar :
        LET step == StepsSoFar[k]
        IN  /\ Len(step.premises_used) = Len(step.rule_applied.premises)
            /\ \A i \in DOMAIN step.premises_used :
                   step.premises_used[i] \in KnownBefore(StepsSoFar, k)

\* A two-premise step, one of whose premises an earlier step derived.
C2_Witness ==
    /\ Returned
    /\ \E k \in DOMAIN TheResult.steps :
          /\ Len(TheResult.steps[k].premises_used) = 2
          /\ \E i \in 1..2 : TheResult.steps[k].premises_used[i] \notin initial_facts

\* C3: a call whose goal is among the initial facts returns success and
\* goal_achieved, no steps, iterations_used 0 and the initial facts, whatever the
\* rules and the limits.
C3_TrivialGoal ==
    (Returned /\ TheGoal \in initial_facts) =>
        TheResult = [success |-> TRUE, goal_achieved |-> TRUE, steps |-> <<>>,
                     final_facts |-> initial_facts, iterations_used |-> 0,
                     error_message |-> None]

\* The goal is known at the start, with no iterations allowed, rules given and
\* more initial facts than max_facts.
C3_Witness ==
    /\ Returned
    /\ TheGoal \in initial_facts
    /\ max_iterations = 0
    /\ Cardinality(initial_facts) > max_facts
    /\ rules # <<>>

\* C4: two calls of prove with the same goal, initial facts, rule list and
\* limits return the same ProofResult.
C4_Deterministic ==
    (Returned /\ ~IsNone(previous)) => result = previous

\* C5 as stated: a call that ends stuck, at the iteration limit or over the fact
\* limit returns success = true and goal_achieved = false.
C5_ExhaustionSucceeds ==
    (Returned /\ outcome \in {"Stuck", "IterationLimit", "FactLimit"}) =>
        (TheResult.success /\ ~TheResult.goal_achieved)

\* C5 amended: stuck and iteration limit return success = true, goal_achieved =
\* false and no error message; the fact limit returns success = false,
\* goal_achieved = false and an error message.
C5_ExhaustionResults ==
    /\ (Returned /\ outcome \in {"Stuck", "IterationLimit"}) =>
          /\ TheResult.success
          /\ ~TheResult.goal_achieved
          /\ IsNone(TheResult.error_message)
    /\ (Returned /\ outcome = "FactLimit") =>
          /\ ~TheResult.success
          /\ ~TheResult.goal_achieved
          /\ ~IsNone(TheResult.error_message)

\* A call that went over the fact limit.
C5_Witness == Returned /\ outcome = "FactLimit" /\ Len(TheResult.steps) > 1

\* The step of prove that inserts a new fact which is not the goal and takes the
\* working set over max_facts (and is not cut short by a fault).
Overflowing ==
    /\ pc = "facts"
    /\ Head(new_facts) \notin Members(current_facts)
    /\ Head(new_facts) # TheGoal
    /\ Len(current_facts) + 1 > max_facts
    /\ outcome' # "Error"

\* C6: when the insertion of a derived fact other than the goal takes the working
\* set over max_facts, prove returns at once: success = false, goal_achieved =
\* false, a non-empty error message, the steps up to and including this
\* derivation, and final facts that contain the derived fact.
C6_FactLimit ==
    [][Overflowing =>
          /\ pc' = "returned"
          /\ ~IsNone(result')
          /\ LET r == TheValue(result')
             IN  /\ ~r.success
                 /\ ~r.goal_achieved
                 /\ ~IsNone(r.error_message)
                 /\ TheValue(r.error_message) # ""
                 /\ Len(r.steps) = Len(proof_steps) + 1
                 /\ SubSeq(r.steps, 1, Len(proof_steps)) = proof_steps
                 /\ r.steps[Len(r.steps)].derived_fact = Head(new_facts)
                 /\ r.final_facts = Members(current_facts) \cup {Head(new_facts)}]_vars

\* The limit is met by derivations: the call started within max_facts.
C6_Witness ==
    /\ Returned
    /\ outcome = "FactLimit"
    /\ Cardinality(initial_facts) <= max_facts
    /\ Cardinality(TheResult.final_facts) = max_facts + 1

Larger(m, n) == IF m >= n THEN m ELSE n

\* C7: every call returns; iterations_used never exceeds max_iterations; while
\* the call runs the working set holds at most max(max_facts, initial size)
\* facts, the call ending with the insertion that exceeds it; when the loop
\* runs out the result is success = true, goal_achieved = false and
\* iterations_used = max_iterations.
C7_Terminates ==
    /\ (Running ~> Returned)
    /\ [](Returned => TheResult.iterations_used <= max_iterations)
    /\ [](Running =>
            Len(current_facts) <= Larger(max_facts, Cardinality(initial_facts)))
    /\ []((Returned /\ outcome = "IterationLimit") =>
            /\ TheResult.success
            /\ ~TheResult.goal_achieved
            /\ TheResult.iterations_used = max_iterations)

\* The loop ran out while the set was still growing.
C7_Witness ==
    /\ Returned
    /\ outcome = "IterationLimit"
    /\ max_iterations >= 2
    /\ Len(TheResult.steps) >= 2

\* The working set, as the caller or the call sees it.
Working == IF Returned THEN TheResult.final_facts ELSE Members(current_facts)

\* C8: during a call the working set only grows, and the final facts contain the
\* initial facts.
C8_Monotonic ==
    /\ [][Working \subseteq Working']_vars
    /\ [](pc # "idle" => initial_facts \subseteq Working)

\* A call that derived at least two facts.
C8_Witness ==
    /\ Returned
    /\ Cardinality(TheResult.final_facts) >= Cardinality(initial_facts) + 2

\* C9: an exception raised while prove is matching, applying a rule or creating
\* a step ends the call with a result: success = false, goal_achieved = false,
\* an error message, and the steps and facts accumulated so far, unchanged.
C9_FaultsBecomeErrors ==
    [][(Running /\ outcome' = "Error") =>
          /\ pc' = "returned"
          /\ ~IsNone(result')
          /\ LET r == TheValue(result')
             IN  /\ ~r.success
                 /\ ~r.goal_achieved
                 /\ ~IsNone(r.error_message)
                 /\ r.steps = proof_steps
                 /\ r.final_facts = Members(current_facts)]_vars

\* A fault after two derivations.
C9_Witness ==
    /\ Returned
    /\ outcome = "Error"
    /\ Len(TheResult.steps) >= 2

SevenMinusThree == Operation(Number(7), "-", Number(3))

\* The call of test_simple_proof, with limits that leave room for its one step.
SimpleProof ==
    /\ Returned
    /\ outcome # "Error"
    /\ TheGoal = eq(x, Number(4))
    /\ initial_facts = {eq(Operation(x, "+", Number(3)), Number(7))}
    /\ rules = <<subtraction_property>>
    /\ max_iterations >= 1
    /\ max_facts >= 2

\* C10: prove with goal eq(x,4), facts {eq(x+3,7)} and rules
\* [subtraction_property] returns success with the single step that derives
\* eq(x, 7-3) by subtraction_property, and goal_achieved = false; and a goal is
\* achieved only when it is an initial fact or structurally equal to the last
\* derived fact.
C10_NoSimplification ==
    /\ SimpleProof =>
          /\ TheResult.success
          /\ ~TheResult.goal_achieved
          /\ Len(TheResult.steps) = 1
          /\ TheResult.steps[1].rule_applied.name = "subtraction_property"
          /\ TheResult.steps[1].derived_fact = eq(x, SevenMinusThree)
    /\ (Returned /\ TheResult.goal_achieved) =>
          IF TheResult.steps = <<>> THEN TheGoal \in initial_facts
          ELSE TheResult.steps[Len(TheResult.steps)].derived_fact = TheGoal

\* The call of test_simple_proof has run until nothing more could be derived.
C10_Witness == SimpleProof /\ outcome = "Stuck"

(***************************************************************************)
(* Two Substitution objects: add_mapping on either, merge of the first     *)
(* with the second.                                                        *)
(***************************************************************************)
MappedNames == {"X", "Y"}
MappedExpressions == {a, Number(5), Operation(x, "+", Number(3))}

InitSubstitution ==
    /\ Constructed
    /\ called = "none"
    /\ given = <<>>
    /\ max_iterations = 0
    /\ max_facts = 0
    /\ Idle

\* s.add_mapping(variable, expression), s the first or the second object
CallAddMapping(which, variable, expression) ==
    /\ \E done \in {add_mapping(IF which = 1 THEN s1 ELSE s2, variable, expression)} :
          /\ returned' = Some(done[1])
          /\ IF which = 1
             THEN s1' = done[2] /\ UNCHANGED s2
             ELSE s2' = done[2] /\ UNCHANGED s1
    /\ called' = "add_mapping"
    /\ given' = <<which, variable, expression>>
    /\ UNCHANGED <<chainer, limits, thread2, active_rules, raised>>

\* s1.merge(s2): works on a copy of s1's mappings
CallMerge ==
    /\ returned' = Some(merge(s1, s2))
    /\ called' = "merge"
    /\ given' = <<>>
    /\ UNCHANGED <<chainer, limits, thread2, active_rules, raised, s1, s2>>

NextSubstitution ==
    \/ \E which \in 1..2, variable \in MappedNames, expression \in MappedExpressions :
          CallAddMapping(which, variable, expression)
    \/ CallMerge

SpecSubstitution == InitSubstitution /\ [][NextSubstitution]_vars

(***************************************************************************)
(* reasoning/rules.py: MathematicalRules and RuleSystem.                   *)
(* A call returns a value or raises an error; a method that changes the    *)
(* active set yields <<outcome, active set afterwards>>.                   *)
(***************************************************************************)
Returning(value) == [returned |-> Some(value), raised |-> None]
Raising(message) == [returned |-> None, raised |-> Some(message)]
HasRaised(done) == ~IsNone(done.raised)

category_mapping ==
    [algebraic |->
        <<"subtraction_property", "division_property", "equality_transitivity",
          "addition_property", "multiplication_property", "equality_symmetry">>,
     arithmetic |->
        <<"even_definition", "odd_definition", "even_multiplication",
          "odd_multiplication", "even_addition", "odd_addition_even",
          "even_odd_addition", "even_square", "odd_square">>,
     comparison |->
        <<"greater_transitivity", "equality_substitution_gt", "less_transitivity",
          "gte_transitivity", "lte_transitivity", "gt_lt_relationship">>,
     number_theory |->
        <<"divisibility_transitivity", "multiple_divides",
          "divisibility_multiplication", "prime_not_even">>]

\* self._rules[name]
RuleNamed(name) == CHOOSE rule \in Members(MathematicalRules) : rule.name = name
RulesNamed(names) == [i \in DOMAIN names |-> RuleNamed(names[i])]

\* Mutant of get_rule: an unknown name yields None instead of an error.
get_rule_lenient(name) ==
    IF name \notin Members(list_rule_names)
    THEN Returning(None)
    ELSE Returning(RuleNamed(name))

get_rule(name) ==
    IF name \notin Members(list_rule_names)
    THEN Raising("Unknown rule: " \o name)
    ELSE Returning(RuleNamed(name))

get_rules_by_category(category) ==
    IF category \notin DOMAIN category_mapping
    THEN Raising("Unknown category: " \o category)
    ELSE Returning(RulesNamed(category_mapping[category]))

enable_rule(active, rule_name) ==
    IF rule_name \notin Members(list_rule_names)
    THEN <<Raising("Unknown rule: " \o rule_name), active>>
    ELSE <<Returning(None), active \cup {rule_name}>>

\* Mutant of disable_rule: the name is not discarded.
disable_rule_keeping(active, rule_name) == <<Returning(None), active>>

\* Mutant of disable_rule: a name that is not in the catalog raises, as in
\* enable_rule.
disable_rule_strict(active, rule_name) ==
    IF rule_name \notin Members(list_rule_names)
    THEN <<Raising("Unknown rule: " \o rule_name), active>>
    ELSE <<Returning(None), active \ {rule_name}>>

disable_rule(active, rule_name) == <<Returning(None), active \ {rule_name}>>

\* Mutant of enable_category: every rule of the catalog is enabled.
enable_category_all(active, category) ==
    LET got == get_rules_by_category(category)
    IN  IF HasRaised(got) THEN <<got, active>>
        ELSE <<Returning(None), active \cup Members(list_rule_names)>>

enable_category(active, category) ==
    LET got == get_rules_by_category(category)
    IN  IF HasRaised(got) THEN <<got, active>>
        ELSE <<Returning(None),
               active \cup {rule.name : rule \in Members(TheValue(got.returned))}>>

disable_category(active, category) ==
    LET got == get_rules_by_category(category)
    IN  IF HasRaised(got) THEN <<got, active>>
        ELSE <<Returning(None),
               active \ {rule.name : rule \in Members(TheValue(got.returned))}>>

\* get_active_rules: what it may return, one list for each order in which the
\* set may be visited; get_rule raises on a name that is not in the catalog
get_active_rules(active) ==
    {IF \E i \in DOMAIN order : HasRaised(get_rule(order[i]))
     THEN get_rule(order[CHOOSE i \in DOMAIN order :
                            /\ HasRaised(get_rule(order[i]))
                            /\ \A j \in 1..(i - 1) : ~HasRaised(get_rule(order[j]))])
     ELSE Returning(RulesNamed(order)) :
        order \in Enumerations(active)}

is_rule_active(active, rule_name) == rule_name \in active

ToggledNames ==
    {"subtraction_property", "equality_symmetry", "even_square",
     "greater_transitivity", "nonexistent_rule"}
ToggledCategories ==
    {"algebraic", "arithmetic", "comparison", "number_theory", "invalid_category"}

\* One RuleSystem, no call made on it yet
InitRules ==
    /\ Constructed
    /\ called = "none"
    /\ given = <<>>
    /\ max_iterations = 0
    /\ max_facts = 0
    /\ Idle

\* A call on the rule system ends: the outcome and the active set afterwards
Done(name, arguments, outcome_, active) ==
    /\ called' = name
    /\ given' = arguments
    /\ returned' = outcome_.returned
    /\ raised' = outcome_.raised
    /\ active_rules' = active
    /\ UNCHANGED <<chainer, limits, thread2, s1, s2>>

CallEnableRule(rule_name) ==
    /\ pc = "idle"
    /\ \E done \in {enable_rule(active_rules, rule_name)} :
          Done("enable_rule", <<rule_name>>, done[1], done[2])

CallDisableRule(rule_name) ==
    /\ pc = "idle"
    /\ \E done \in {disable_rule(active_rules, rule_name)} :
          Done("disable_rule", <<rule_name>>, done[1], done[2])

CallEnableCategory(category) ==
    /\ pc = "idle"
    /\ \E done \in {enable_category(active_rules, category)} :
          Done("enable_category", <<category>>, done[1], done[2])

CallDisableCategory(category) ==
    /\ pc = "idle"
    /\ \E done \in {disable_category(active_rules, category)} :
          Done("disable_category", <<category>>, done[1], done[2])

CallGetRule(name) ==
    /\ pc = "idle"
    /\ Done("get_rule", <<name>>, get_rule(name), active_rules)

\* The list is returned in any order: it is asked for while at most MaxListed
\* rules are active.
CallGetActiveRules ==
    /\ pc = "idle"
    /\ Cardinality(active_rules) <= MaxListed
    /\ \E done \in get_active_rules(active_rules) :
          Done("get_active_rules", <<>>, done, active_rules)

CallIsRuleActive(rule_name) ==
    /\ pc = "idle"
    /\ Done("is_rule_active", <<rule_name>>,
            Returning(is_rule_active(active_rules, rule_name)), active_rules)

Toggle ==
    \/ \E rule_name \in ToggledNames : CallEnableRule(rule_name)
    \/ \E rule_name \in ToggledNames : CallDisableRule(rule_name)
    \/ \E category \in ToggledCategories : CallEnableCategory(category)
    \/ \E category \in ToggledCategories : CallDisableCategory(category)

NextRules ==
    \/ Toggle
    \/ \E name \in ToggledNames : CallGetRule(name)
    \/ \E rule_name \in ToggledNames : CallIsRuleActive(rule_name)
    \/ CallGetActiveRules

SpecRules == InitRules /\ [][NextRules]_vars

(***************************************************************************)
(* reasoning/proof_engine.py: ProofEngine.prove_goal on one engine, whose  *)
(* rules may have been enabled and disabled before.                        *)
(* rule_categories and specific_rules are Optional[List[str]].             *)
(***************************************************************************)
\* "if names:" on an Optional[List]: neither None nor the empty list
Truthy(names) == ~IsNone(names) /\ TheValue(names) # <<>>

RECURSIVE rules_named(_, _), rules_of_categories(_, _)
\* [get_rule(name) for name in specific_rules], from the i-th name on
rules_named(specific_rules, i) ==
    IF i > Len(specific_rules) THEN Returning(<<>>)
    ELSE LET got == get_rule(specific_rules[i])
             rest == rules_named(specific_rules, i + 1)
         IN  IF HasRaised(got) THEN got
             ELSE IF HasRaised(rest) THEN rest
             ELSE Returning(<<TheValue(got.returned)>> \o TheValue(rest.returned))

\* for category in rule_categories: rules.extend(get_rules_by_category(category)),
\* from the i-th category on
rules_of_categories(rule_categories, i) ==
    IF i > Len(rule_categories) THEN Returning(<<>>)
    ELSE LET got == get_rules_by_category(rule_categories[i])
             rest == rules_of_categories(rule_categories, i + 1)
         IN  IF HasRaised(got) THEN got
             ELSE IF HasRaised(rest) THEN rest
             ELSE Returning(TheValue(got.returned) \o TheValue(rest.returned))

\* Mutant of select_rules: the categories are looked at before the names.
select_rules_categories_first(specific_rules, rule_categories, active) ==
    IF Truthy(rule_categories)
    THEN {rules_of_categories(TheValue(rule_categories), 1)}
    ELSE IF Truthy(specific_rules)
    THEN {rules_named(TheValue(specific_rules), 1)}
    ELSE get_active_rules(active)

\* Mutant of select_rules: of the named rules and of the rules of the
\* categories, only the active ones are used.
select_rules_active_only(specific_rules, rule_categories, active) ==
    LET ActiveOf(selected) ==
            IF HasRaised(selected) THEN selected
            ELSE Returning(SelectSeq(TheValue(selected.returned),
                                     LAMBDA rule : rule.name \in active))
    IN  IF Truthy(specific_rules)
        THEN {ActiveOf(rules_named(TheValue(specific_rules), 1))}
        ELSE IF Truthy(rule_categories)
        THEN {ActiveOf(rules_of_categories(TheValue(rule_categories), 1))}
        ELSE get_active_rules(active)

\* prove_goal, lines 258-267: the lists of rules the search may be given, or the
\* error raised
select_rules(specific_rules, rule_categories, active) ==
    IF Truthy(specific_rules)
    THEN {rules_named(TheValue(specific_rules), 1)}
    ELSE IF Truthy(rule_categories)
    THEN {rules_of_categories(TheValue(rule_categories), 1)}
    ELSE get_active_rules(active)

seven_minus_three == Operation(Number(7), "-", Number(3))
twice(e) == Operation(Number(2), "*", e)
\* <<goal, initial facts>>: the problem of tests/test_proof_engine.py, a
\* symmetric equation, and a number that is even on one or on two accounts
EngineProblems ==
    {<<eq(x, seven_minus_three), {eq(Operation(x, "+", Number(3)), Number(7))}>>,
     <<eq(b, a), {eq(a, b)}>>,
     <<odd(a), {eq(a, twice(b))}>>,
     <<odd(a), {eq(a, twice(b)), eq(a, twice(c))}>>}
SpecificRules ==
    {None, Some(<<>>), Some(<<"subtraction_property">>),
     Some(<<"equality_symmetry", "subtraction_property">>),
     Some(<<"even_square", "even_definition">>),
     Some(<<"subtraction_property", "nonexistent_rule">>)}
RuleCategories ==
    {None, Some(<<>>), Some(<<"algebraic">>), Some(<<"comparison", "algebraic">>),
     Some(<<"invalid_category">>)}

\* ProofEngine.__init__, then configure_engine(max_iterations, max_facts)
InitEngine ==
    /\ Constructed
    /\ called = "none"
    /\ given = <<>>
    /\ max_iterations = MaxIterationsBound - 1
    /\ max_facts = MaxFactsBound
    /\ Idle

\* prove_goal: select the rules, then forward_chainer.prove(goal, initial_facts,
\* rules); an unknown name or category raises before prove is called.  The
\* active rules come in any order: they are used while at most MaxListed are
\* active.
ProveGoal(g, F, rule_categories, specific_rules) ==
    /\ pc = "idle"
    /\ \/ Truthy(specific_rules)
       \/ Truthy(rule_categories)
       \/ Cardinality(active_rules) <= MaxListed
    /\ called' = "prove_goal"
    /\ given' = <<g, F, rule_categories, specific_rules>>
    /\ returned' = None
    /\ \E selected \in select_rules(specific_rules, rule_categories, active_rules) :
          IF HasRaised(selected)
          THEN /\ raised' = selected.raised
               /\ UNCHANGED <<chainer, limits>>
          ELSE /\ raised' = None
               /\ Call(g, F, TheValue(selected.returned))
               /\ UNCHANGED previous
    /\ UNCHANGED <<s1, s2, active_rules, thread2>>

\* solve_problem, lines 284-288: the rules of the problem if it has any,
\* otherwise the active rules
select_problem_rules(problem_rules, active) ==
    IF problem_rules # <<>> THEN {Returning(problem_rules)}
    ELSE get_active_rules(active)

\* solve_problem: the facts of the problem as a set, the rules selected, then
\* forward_chainer.prove(problem.goal, initial_facts, rules)
SolveProblem(g, facts, problem_rules) ==
    /\ pc = "idle"
    /\ problem_rules # <<>> \/ Cardinality(active_rules) <= MaxListed
    /\ called' = "solve_problem"
    /\ given' = <<g, facts, problem_rules>>
    /\ returned' = None
    /\ \E selected \in select_problem_rules(problem_rules, active_rules) :
          IF HasRaised(selected)
          THEN /\ raised' = selected.raised
               /\ UNCHANGED <<chainer, limits>>
          ELSE /\ raised' = None
               /\ Call(g, Members(facts), TheValue(selected.returned))
               /\ UNCHANGED previous
    /\ UNCHANGED <<s1, s2, active_rules, thread2>>

\* enable_rules and disable_rules, name by name, and the category switches of
\* the engine's rule_system
EngineNames == {"subtraction_property", "equality_symmetry"}
ToggleEngine ==
    \/ \E rule_name \in EngineNames : CallEnableRule(rule_name)
    \/ \E rule_name \in EngineNames : CallDisableRule(rule_name)
    \/ CallEnableCategory("algebraic")
    \/ \E category \in DOMAIN category_mapping : CallDisableCategory(category)

NextEngine ==
    \/ ToggleEngine
    \/ \E problem \in EngineProblems, rule_categories \in RuleCategories,
          specific_rules \in SpecificRules :
          ProveGoal(problem[1], problem[2], rule_categories, specific_rules)
    \/ \E problem \in EngineProblems, problem_rules \in {<<>>, <<subtraction_property>>} :
       \E facts \in Enumerations(problem[2]) :
          SolveProblem(problem[1], facts, problem_rules)
    \/ Search

SpecEngine == InitEngine /\ [][NextEngine]_vars

(***************************************************************************)
(* Properties of the matcher and the applicator.                           *)
(***************************************************************************)
TheReturned == TheValue(returned)

RECURSIVE HasPatternVariable(_)
HasPatternVariable(e) ==
    CASE e.type = "Variable" -> IsPatternVariable(e.name)
      [] e.type = "Number" -> FALSE
      [] e.type = "Operation" -> HasPatternVariable(e.left) \/ HasPatternVariable(e.right)
Concrete(fact) == \A i \in DOMAIN fact.arguments : ~HasPatternVariable(fact.arguments[i])

\* C11: when the facts given contain no pattern variable, no fact returned by
\* apply_rule for a rule of the catalog contains a pattern variable.
C11_DerivedConcrete ==
    (/\ called = "apply_rule"
     /\ ~IsNone(returned)
     /\ given[1] \in Members(MathematicalRules)
     /\ \A fact \in Members(given[2]) : Concrete(fact))
    => \A i \in DOMAIN TheReturned : Concrete(TheReturned[i])

\* C12: apply_rule returns no fact that is a member of the facts it was given,
\* and the set it was given is afterwards as it was.
C12_NoRederivation ==
    /\ []((called = "apply_rule" /\ ~IsNone(returned)) =>
            \A i \in DOMAIN TheReturned : TheReturned[i] \notin Members(given[2]))
    /\ [][called = "apply_rule" => given' = given]_vars

\* Of several conclusions some were already known and were dropped, the others
\* were returned.
C12_Witness ==
    /\ called = "apply_rule"
    /\ ~IsNone(returned)
    /\ TheReturned # <<>>
    /\ \E substitutions \in find_rule_matches(given[1].premises, given[2]) :
          \E j \in DOMAIN substitutions :
              apply_to_fact(substitutions[j], given[1].conclusion) \in Members(given[2])

\* The assignments of n pairwise distinct facts of T to the premises 1..n
Assignments(n, T) ==
    {assigned \in [1..n -> T] :
        \A i, j \in 1..n : i # j => assigned[i] # assigned[j]}
\* The per-premise matches of an assignment, merged: None when they conflict
SubstitutionOf(patterns, assigned) ==
    InstantiatingSubstitution(patterns, assigned, 1, EmptySubstitution)
Occurrences(list, v) == Cardinality({i \in DOMAIN list : list[i] = v})
XYZ_abc ==
    [mappings |-> [n \in {"X", "Y", "Z"} |->
                      CASE n = "X" -> a [] n = "Y" -> b [] n = "Z" -> c]]

\* C13: for two premises or more, match_facts_list returns as many
\* substitutions as there are assignments of pairwise distinct target facts to
\* the premises whose matches merge, each assignment's merged substitution as
\* often as assignments yield it, and nothing else; eq(X,Y), eq(Y,Z) against
\* {eq(a,b), eq(b,c)} yields X=a, Y=b, Z=c alone.
C13_DistinctFacts ==
    (called = "match_facts_list" /\ ~IsNone(returned) /\ Len(given[1]) >= 2) =>
        LET patterns == given[1]
            valid == {assigned \in Assignments(Len(patterns), Members(given[2])) :
                         ~IsNone(SubstitutionOf(patterns, assigned))}
            merged == {TheValue(SubstitutionOf(patterns, assigned)) : assigned \in valid}
        IN  /\ Len(TheReturned) = Cardinality(valid)
            /\ \A i \in DOMAIN TheReturned : TheReturned[i] \in merged
            /\ \A substitution \in merged :
                   Occurrences(TheReturned, substitution) =
                       Cardinality({assigned \in valid :
                           TheValue(SubstitutionOf(patterns, assigned)) = substitution})
            /\ (patterns = <<eq(X, Y), eq(Y, Z)>>
                    /\ Members(given[2]) = {eq(a, b), eq(b, c)}) =>
                   TheReturned = <<XYZ_abc>>

\* A substitution is returned, and one target fact taken for every premise would
\* have matched as well.
C13_Witness ==
    /\ called = "match_facts_list"
    /\ ~IsNone(returned)
    /\ Len(given[1]) >= 2
    /\ TheReturned # <<>>
    /\ \E t \in Members(given[2]) :
          ~IsNone(SubstitutionOf(given[1], [i \in 1..Len(given[1]) |-> t]))

RECURSIVE PatternVariables(_), SubExpressions(_)
PatternVariables(e) ==
    CASE e.type = "Variable" -> IF IsPatternVariable(e.name) THEN {e.name} ELSE {}
      [] e.type = "Number" -> {}
      [] e.type = "Operation" -> PatternVariables(e.left) \cup PatternVariables(e.right)
SubExpressions(e) ==
    IF e.type = "Operation"
    THEN {e} \cup SubExpressions(e.left) \cup SubExpressions(e.right)
    ELSE {e}

\* The substitutions that bind the pattern variables of the pattern, and no
\* other name, so that the pattern becomes the target
Instantiations(pattern, target) ==
    {substitution \in {[mappings |-> m] :
                          m \in [PatternVariables(pattern) -> SubExpressions(target)]} :
        apply_to_expression(substitution, pattern) = target}

\* C14: match_expression returns the substitution that binds each pattern
\* variable of the pattern to the target sub-expression at its place, when one
\* substitution does so at every place the variable occurs, and no substitution
\* otherwise; X * X matches a * a and does not match a * b.
C14_ConsistentBinding ==
    (called = "match_expression" /\ ~IsNone(returned)) =>
        /\ Instantiations(given[1], given[2]) =
               (IF IsNone(TheReturned) THEN {} ELSE {TheValue(TheReturned)})
        /\ (given[1] = Operation(X, "*", X) /\ given[2].type = "Operation") =>
               (IsNone(TheReturned) <=>
                   (given[2].operator # "*" \/ given[2].left # given[2].right))

\* A pattern variable that occurs twice, at different depths, is matched.
C14_Witness ==
    /\ called = "match_expression"
    /\ ~IsNone(returned)
    /\ given[1] = Operation(Operation(X, "+", Y), "*", X)
    /\ ~IsNone(TheReturned)

\* The bindings of a substitution stay as they are from one state to the next.
BindingsKept(s, after) ==
    \A n \in DOMAIN s.mappings :
        n \in DOMAIN after.mappings /\ after.mappings[n] = s.mappings[n]

\* What add_mapping(variable, expression) is to do on the substitution s.
AddedTo(s, after, variable, expression, ok) ==
    IF variable \in DOMAIN s.mappings
    THEN /\ ok = (s.mappings[variable] = expression)
         /\ after = s
    ELSE /\ ok = TRUE
         /\ DOMAIN after.mappings = DOMAIN s.mappings \cup {variable}
         /\ after.mappings[variable] = expression
         /\ BindingsKept(s, after)

Conflicting(s, other) ==
    \E n \in DOMAIN s.mappings \cap DOMAIN other.mappings :
        s.mappings[n] # other.mappings[n]

\* C15: a name once bound keeps its expression; add_mapping on a bound name
\* returns whether the new expression equals the bound one and changes nothing,
\* on an unbound name it binds it and returns true; merge returns no
\* substitution iff a name is bound to unequal expressions in the two,
\* otherwise the bindings of both and no others, and changes neither.
C15_SubstitutionConsistent ==
    /\ [][BindingsKept(s1, s1') /\ BindingsKept(s2, s2')]_vars
    /\ [][called' = "add_mapping" =>
             IF given'[1] = 1
             THEN AddedTo(s1, s1', given'[2], given'[3], TheValue(returned')) /\ s2' = s2
             ELSE AddedTo(s2, s2', given'[2], given'[3], TheValue(returned')) /\ s1' = s1]_vars
    /\ [][called' = "merge" =>
             /\ s1' = s1
             /\ s2' = s2
             /\ IsNone(TheValue(returned')) <=> Conflicting(s1, s2)
             /\ ~IsNone(TheValue(returned')) =>
                   LET merged == TheValue(TheValue(returned'))
                   IN  /\ DOMAIN merged.mappings =
                              DOMAIN s1.mappings \cup DOMAIN s2.mappings
                       /\ BindingsKept(s1, merged)
                       /\ BindingsKept(s2, merged)]_vars

\* A merge that fails on one name though the two agree on another.
C15_Witness ==
    /\ called = "merge"
    /\ IsNone(TheReturned)
    /\ \E n \in DOMAIN s1.mappings \cap DOMAIN s2.mappings :
          s1.mappings[n] = s2.mappings[n]

(***************************************************************************)
(* Properties of the rule system.                                          *)
(***************************************************************************)
CatalogNames == Members(list_rule_names)
CategoryNames(category) == Members(category_mapping[category])

\* C16: a new RuleSystem has every catalog rule active; the active set is
\* always a subset of the catalog's rule names; get_active_rules returns the
\* rules whose names are active, each once, and no other; disable_rule lowers
\* the number of active rules by one when the rule was active, and by none
\* otherwise.
C16_ActiveSubset ==
    /\ [](called = "none" => active_rules = CatalogNames)
    /\ [](active_rules \subseteq CatalogNames)
    /\ [](called = "get_active_rules" =>
            /\ IsNone(raised)
            /\ Len(TheReturned) = Cardinality(active_rules)
            /\ Members(TheReturned) = {RuleNamed(name) : name \in active_rules}
            /\ \A i \in DOMAIN TheReturned : TheReturned[i].name \in active_rules)
    /\ [][called' = "disable_rule" =>
             /\ given'[1] \notin active_rules'
             /\ Cardinality(active_rules') =
                    Cardinality(active_rules)
                        - (IF given'[1] \in active_rules THEN 1 ELSE 0)]_vars

\* Rules enabled one by one after every category was disabled are listed.
C16_Witness ==
    /\ called = "get_active_rules"
    /\ Len(TheReturned) >= 2

\* C17: disable_category(c) leaves no rule of c active and enable_category(c)
\* leaves every rule of c active; each leaves every rule that is not listed
\* under c as it was; enable_category(c) right after disable_category(c) leaves
\* all rules of c active.
C17_CategoryFrame ==
    /\ [][(called' \in {"enable_category", "disable_category"} /\ IsNone(raised')) =>
             /\ \A name \in CatalogNames \ CategoryNames(given'[1]) :
                    name \in active_rules' <=> name \in active_rules
             /\ \A name \in CategoryNames(given'[1]) :
                    name \in active_rules' <=> called' = "enable_category"]_vars
    /\ [][(/\ called = "disable_category"
            /\ IsNone(raised)
            /\ called' = "enable_category"
            /\ given' = given) =>
             CategoryNames(given[1]) \subseteq active_rules']_vars

\* A category is enabled while another is wholly disabled and a third one
\* partly.
C17_Witness ==
    /\ called = "enable_category"
    /\ IsNone(raised)
    /\ CategoryNames(given[1]) \subseteq active_rules
    /\ \E other \in DOMAIN category_mapping : CategoryNames(other) \cap active_rules = {}
    /\ \E other \in DOMAIN category_mapping :
          /\ CategoryNames(other) \cap active_rules # {}
          /\ ~(CategoryNames(other) \subseteq active_rules)

\* C18: get_rule and enable_rule with a name that is not in the catalog raise
\* an error and return nothing, and the active set is afterwards as it was.
C18_UnknownRuleFails ==
    [][(called' \in {"get_rule", "enable_rule"} /\ given'[1] \notin CatalogNames) =>
          /\ ~IsNone(raised')
          /\ TheValue(raised') = "Unknown rule: " \o given'[1]
          /\ IsNone(returned')
          /\ active_rules' = active_rules]_vars

\* enable_rule fails on an unknown name while some rules are disabled.
C18_Witness ==
    /\ called = "enable_rule"
    /\ ~IsNone(raised)
    /\ active_rules # CatalogNames
    /\ active_rules # {}

(***************************************************************************)
(* Properties of the proof engine.                                         *)
(***************************************************************************)
RECURSIVE NamesOfCategories(_)
NamesOfCategories(categories) ==
    IF categories = <<>> THEN <<>>
    ELSE category_mapping[Head(categories)] \o NamesOfCategories(Tail(categories))

RuleNames == [i \in DOMAIN rules |-> rules[i].name]

\* C19: rule-selection precedence of prove_goal.  While and after prove_goal
\* searches, the rules of the search are catalog rules and: when specific rule
\* names are given (a list with a name in it), their names are the given names in
\* the given order, whatever categories are given; otherwise when categories are
\* given (a list with a category in it), their names are the names listed under
\* these categories, category after category; otherwise they are the active
\* rules, each once.  A list without a member counts as not given.  prove_goal
\* raises only on an unknown name among the given names, or, no names given, on
\* an unknown category among the given categories.
C19_SelectionPrecedence ==
    called = "prove_goal" =>
        LET rule_categories == given[3]
            specific_rules == given[4]
        IN  IF ~IsNone(raised)
            THEN /\ pc = "idle"
                 /\ IF Truthy(specific_rules)
                    THEN Members(TheValue(specific_rules)) \ CatalogNames # {}
                    ELSE /\ Truthy(rule_categories)
                         /\ Members(TheValue(rule_categories))
                                \ DOMAIN category_mapping # {}
            ELSE /\ pc # "idle"
                 /\ Members(rules) \subseteq Members(MathematicalRules)
                 /\ IF Truthy(specific_rules)
                    THEN RuleNames = TheValue(specific_rules)
                    ELSE IF Truthy(rule_categories)
                    THEN RuleNames = NamesOfCategories(TheValue(rule_categories))
                    ELSE /\ Members(RuleNames) = active_rules
                         /\ Len(rules) = Cardinality(active_rules)

\* Names and a category that does not exist are given; the search with the named
\* rules, in their order, has proved the goal.
C19_Witness ==
    /\ called = "prove_goal"
    /\ given[4] = Some(<<"equality_symmetry", "subtraction_property">>)
    /\ given[3] = Some(<<"invalid_category">>)
    /\ pc = "returned"
    /\ rules = <<equality_symmetry, subtraction_property>>
    /\ TheValue(result).goal_achieved

\* No names are given but two categories; the search used their rules.
C19_WitnessCategories ==
    /\ called = "prove_goal"
    /\ ~Truthy(given[4])
    /\ given[3] = Some(<<"comparison", "algebraic">>)
    /\ pc = "returned"
    /\ Len(rules) = 12

\* Neither is given; the search used the two active rules and proved the goal.
C19_WitnessActive ==
    /\ called = "prove_goal"
    /\ ~Truthy(given[4])
    /\ ~Truthy(given[3])
    /\ pc = "returned"
    /\ Len(rules) = 2
    /\ TheValue(result).goal_achieved

(***************************************************************************)
(* Properties of call after call on one instance.                          *)
(***************************************************************************)
\* prove has just been entered on an instance that no call has used
FreshStart ==
    /\ stats = ResetStatistics
    /\ iteration = 0
    /\ facts_at_start = 0
    /\ rule_index = 0
    /\ new_facts = <<>>
    /\ \/ /\ pc = "loop"
          /\ proof_steps = <<>>
          /\ Members(current_facts) = initial_facts
          /\ Len(current_facts) = Cardinality(initial_facts)
       \/ /\ pc = "returned"
          /\ TheGoal \in initial_facts
          /\ TheResult = [success |-> TRUE, goal_achieved |-> TRUE, steps |-> <<>>,
                          final_facts |-> initial_facts, iterations_used |-> 0,
                          error_message |-> None]

StepsOf(steps, rule_name) ==
    {i \in DOMAIN steps : steps[i].rule_applied.name = rule_name}

\* the result and the statistics tell of the arguments of this call and of
\* nothing else
Accounted ==
    LET steps == TheResult.steps
    IN  /\ TheResult.iterations_used = stats.iterations
        /\ stats.iterations <= max_iterations
        /\ stats.rules_applied = Len(steps)
        /\ stats.facts_derived = Len(steps)
        /\ DOMAIN stats.rule_applications = {steps[i].rule_applied.name : i \in DOMAIN steps}
        /\ \A rule_name \in DOMAIN stats.rule_applications :
               stats.rule_applications[rule_name] = Cardinality(StepsOf(steps, rule_name))
        /\ \A i \in DOMAIN steps :
               /\ steps[i].step_number = i
               /\ steps[i].rule_applied \in Members(rules)
        /\ TheResult.final_facts =
               initial_facts \cup {steps[i].derived_fact : i \in DOMAIN steps}
        /\ Cardinality(TheResult.final_facts) = Cardinality(initial_facts) + Len(steps)

\* C20: each call starts from a clean state.  Whatever calls the instance has
\* served, a call of prove begins in the state in which the first call on a new
\* instance with the same limits and arguments begins, and when a call has
\* returned, its result and the statistics (iterations, rules_applied,
\* facts_derived, the counts by rule) are made of the steps and facts of this
\* call alone.
C20_CleanStart ==
    [][/\ pc \in {"idle", "returned"} => FreshStart'
       /\ pc' = "returned" => Accounted']_vars

\* A second call has returned with one step, after a call that returned two.
C20_Witness ==
    /\ pc = "returned"
    /\ ~IsNone(previous)
    /\ Len(TheValue(previous).steps) = 2
    /\ Len(TheResult.steps) = 1
    /\ TheGoal # TheValue(previous).steps[2].derived_fact
    /\ stats.facts_derived = 1

(***************************************************************************)
(* Properties of the order of the search.                                  *)
(***************************************************************************)
DerivedFacts(steps) == {steps[i].derived_fact : i \in DOMAIN steps}

\* the example of test_multi_step_proof, with limits that leave room for it
MultiStep ==
    /\ goal = Some(positive(a))
    /\ initial_facts = {eq(a, b)}
    /\ rules = <<rule1, rule2>>
    /\ max_iterations >= 1
    /\ max_facts >= 2

\* C22: incremental chaining within an iteration.  Whenever a rule of the list
\* is applied, it is applied to the working set as it stands, which holds the
\* facts of all steps recorded so far, those of the earlier rules of the same
\* iteration among them; and with facts {eq(a,b)}, rules [eq(X,Y) -> gt(X,0),
\* gt(X,0) -> positive(X)] and goal positive(a), a call that does not fault and
\* is not cut short by its limits (max_iterations >= 1, max_facts >= 2) returns
\* goal_achieved = true with exactly two steps and iterations_used = 1.
C22_IncrementalChaining ==
    [][/\ (pc = "rules" /\ pc' = "facts") =>
              /\ DerivedFacts(proof_steps) \subseteq Members(current_facts)
              /\ new_facts' \in apply_rule(rules[rule_index], current_facts)
       /\ (pc' = "returned" /\ MultiStep' /\ outcome' # "Error") =>
              /\ TheResult'.goal_achieved
              /\ Len(TheResult'.steps) = 2
              /\ TheResult'.iterations_used = 1]_vars

\* The example has returned: the second rule used, in the first iteration, the
\* fact the first rule had just inserted.
C22_Witness ==
    /\ Returned
    /\ MultiStep
    /\ TheResult.goal_achieved
    /\ Len(TheResult.steps) = 2
    /\ TheResult.steps[2].premises_used = <<gt(a, Number(0))>>
    /\ TheResult.iterations_used = 1

\* apply_rule of every rule of the list, on the facts in whatever order,
\* returns no fact
Saturated(facts, rule_list) ==
    \A i \in DOMAIN rule_list : \A available \in Enumerations(facts) :
        apply_rule(rule_list[i], available) = {<<>>}

\* C23: stuck means saturated.  At the end of an iteration, after the last
\* rule, prove returns success = true, goal_achieved = false if the working set
\* is as large as when the iteration began, and goes on to the next iteration if
\* it has grown; so every iteration before the last one of a stuck search has a
\* step.  Whenever a result has success = true, goal_achieved = false and
\* iterations_used < max_iterations, apply_rule of every supplied rule on
\* final_facts returns no fact.
C23_StuckSaturated ==
    [][/\ (pc = "rules" /\ rule_index > Len(rules)) =>
              IF Len(current_facts) = facts_at_start
              THEN /\ pc' = "returned"
                   /\ TheResult'.success
                   /\ ~TheResult'.goal_achieved
                   /\ TheResult'.final_facts = Members(current_facts)
                   /\ TheResult'.steps = proof_steps
                   /\ TheResult'.iterations_used = iteration + 1
                   /\ Len(proof_steps) >= iteration
              ELSE /\ pc' = "loop"
                   /\ iteration' = iteration + 1
                   /\ current_facts' = current_facts
       /\ (/\ pc' = "returned"
           /\ TheResult'.success
           /\ ~TheResult'.goal_achieved
           /\ TheResult'.iterations_used < max_iterations) =>
              /\ outcome' = "Stuck"
              /\ Saturated(TheResult'.final_facts, rules')]_vars

\* A search has derived a fact in its first iteration and nothing in its second,
\* with an iteration to spare.
C23_Witness ==
    /\ Returned
    /\ outcome = "Stuck"
    /\ TheResult.iterations_used = 2
    /\ TheResult.iterations_used < max_iterations
    /\ Len(TheResult.steps) >= 1
    /\ rules # <<>>

(***************************************************************************)
(* Properties of the results.                                              *)
(***************************************************************************)
\* C24: goal_achieved tells whether the goal is known.  In every result of a
\* call that did not fault, goal_achieved is true exactly if the goal is a
\* member of final_facts; when goal_achieved is true and there are steps, the
\* last step derives the goal and no step before it does; and no result at all
\* has goal_achieved = true with success = false.
C24_GoalAchievedIffKnown ==
    Returned =>
        LET steps == TheResult.steps
        IN  /\ outcome # "Error" =>
                  /\ TheResult.goal_achieved <=> TheGoal \in TheResult.final_facts
                  /\ (TheResult.goal_achieved /\ steps # <<>>) =>
                         /\ steps[Len(steps)].derived_fact = TheGoal
                         /\ \A i \in 1..(Len(steps) - 1) :
                                steps[i].derived_fact # TheGoal
            /\ TheResult.goal_achieved => TheResult.success

\* The goal was derived by the second step of a search.
C24_Witness ==
    /\ Returned
    /\ outcome = "GoalAchieved"
    /\ TheResult.goal_achieved
    /\ Len(TheResult.steps) = 2
    /\ TheResult.steps[2].derived_fact = TheGoal
    /\ TheGoal \in TheResult.final_facts

\* The goal was not reached and is not among the final facts.
C24_WitnessUnknown ==
    /\ Returned
    /\ outcome \in {"Stuck", "FactLimit", "IterationLimit"}
    /\ Len(TheResult.steps) >= 1
    /\ ~TheResult.goal_achieved
    /\ TheGoal \notin TheResult.final_facts

\* C25: steps and facts stay in step.  In every result the k-th step has
\* step_number k, the derived facts of the steps are pairwise distinct, none of
\* them is an initial fact, and final_facts has as many members as there are
\* initial facts and steps together, also when one application of a rule
\* yields the same conclusion from several substitutions.
C25_StepsAndFacts ==
    Returned =>
        LET steps == TheResult.steps
        IN  /\ \A k \in DOMAIN steps : steps[k].step_number = k
            /\ \A j, k \in DOMAIN steps :
                   j # k => steps[j].derived_fact # steps[k].derived_fact
            /\ DerivedFacts(steps) \cap initial_facts = {}
            /\ Cardinality(TheResult.final_facts) =
                   Cardinality(initial_facts) + Len(steps)

\* eq(X,Y) -> gt(X,0) has yielded gt(a,0) from eq(a,b) and from eq(a,c): one
\* step records it, and the next rule has added positive(a).
C25_Witness ==
    /\ Returned
    /\ initial_facts = {eq(a, b), eq(a, c)}
    /\ rules = <<rule1, rule2>>
    /\ Len(TheResult.steps) = 2
    /\ TheResult.steps[1].derived_fact = gt(a, Number(0))
    /\ Cardinality(TheResult.final_facts) = 4

\* C26: the goal check precedes the fact-limit check.  When the fact whose
\* insertion makes the working set larger than max_facts is the goal, a call
\* that does not fault returns success = true, goal_achieved = true, no error
\* message, and that step as the last step.
C26_GoalBeforeLimit ==
    [][(/\ pc = "facts"
        /\ Head(new_facts) \notin Members(current_facts)
        /\ Head(new_facts) = TheGoal
        /\ Len(current_facts) + 1 > max_facts
        /\ outcome' # "Error") =>
            /\ pc' = "returned"
            /\ outcome' = "GoalAchieved"
            /\ TheResult'.success
            /\ TheResult'.goal_achieved
            /\ IsNone(TheResult'.error_message)
            /\ Len(TheResult'.steps) = Len(proof_steps) + 1
            /\ TheResult'.steps[Len(proof_steps) + 1].derived_fact = TheGoal
            /\ TheResult'.final_facts = Members(current_facts) \cup {TheGoal}]_vars

\* The goal was derived as the fact that took the working set over the limit,
\* after a step that did not.
C26_Witness ==
    /\ Returned
    /\ outcome = "GoalAchieved"
    /\ Len(TheResult.steps) = 2
    /\ TheResult.steps[2].derived_fact = TheGoal
    /\ Cardinality(TheResult.final_facts) = max_facts + 1

\* the initial facts are more than max_facts and no rule derives a new fact
\* from them; the call has returned without a fault
OverfullAndSaturated ==
    /\ Returned
    /\ outcome # "Error"
    /\ Cardinality(initial_facts) > max_facts
    /\ Saturated(initial_facts, rules)

\* C27 as stated: a call whose initial fact set is larger than max_facts and
\* from which no rule derives a new fact returns success = true,
\* goal_achieved = false and no fact-limit error.
C27_OverfullReturnsNoGoal ==
    OverfullAndSaturated =>
        /\ TheResult.success
        /\ ~TheResult.goal_achieved
        /\ IsNone(TheResult.error_message)

\* C27: the fact limit is checked only after an insertion.  A call whose
\* initial fact set is larger than max_facts and from which no rule derives a
\* new fact returns success = true and no error message, with the initial facts
\* as final_facts and no step; goal_achieved is false unless the goal is among
\* the initial facts, and true if it is.  In every result final_facts has at
\* most max(max_facts, number of initial facts) + 1 members.
C27_LimitAfterInsertion ==
    Returned =>
        /\ OverfullAndSaturated =>
               /\ TheResult.success
               /\ IsNone(TheResult.error_message)
               /\ TheResult.goal_achieved <=> TheGoal \in initial_facts
               /\ TheResult.final_facts = initial_facts
               /\ TheResult.steps = <<>>
        /\ Cardinality(TheResult.final_facts) <=
               Larger(max_facts, Cardinality(initial_facts)) + 1

\* Two initial facts, a limit of one, a rule that matches none of them, a goal
\* that is not known: the search has ended stuck.
C27_Witness ==
    /\ Returned
    /\ outcome = "Stuck"
    /\ Cardinality(initial_facts) = 2
    /\ max_facts = 1
    /\ rules # <<>>
    /\ TheGoal \notin initial_facts
    /\ TheResult.success
    /\ TheResult.final_facts = initial_facts

(***************************************************************************)
(* Properties of the rule selection and of the switches.                   *)
(***************************************************************************)
\* C28: explicit rule selection bypasses the active subset.  The rules of a
\* prove_goal search are the catalog rules of the given names, or, no name
\* given, of the given categories, whether these rules are active or have been
\* disabled; an empty list of names counts as not given.  With neither names
\* nor categories, and in solve_problem on a problem without rules of its own,
\* the rules are the active ones, so that no disabled rule is used;
\* solve_problem on a problem with rules uses these.
C28_ExplicitBypassesActive ==
    /\ (called = "prove_goal" /\ IsNone(raised)) =>
           LET rule_categories == given[3]
               specific_rules == given[4]
           IN  IF Truthy(specific_rules)
               THEN rules = RulesNamed(TheValue(specific_rules))
               ELSE IF Truthy(rule_categories)
               THEN rules = RulesNamed(NamesOfCategories(TheValue(rule_categories)))
               ELSE /\ specific_rules \in {None, Some(<<>>)}
                    /\ Members(RuleNames) = active_rules
    /\ (called = "solve_problem" /\ IsNone(raised)) =>
           /\ initial_facts = Members(given[2])
           /\ IF given[3] # <<>> THEN rules = given[3]
              ELSE Members(RuleNames) = active_rules

\* subtraction_property is disabled and named: the search has used it and
\* proved the goal.
C28_Witness ==
    /\ called = "prove_goal"
    /\ given[4] = Some(<<"subtraction_property">>)
    /\ "subtraction_property" \notin active_rules
    /\ Returned
    /\ TheResult.goal_achieved
    /\ TheResult.steps[1].rule_applied = subtraction_property

\* The algebraic category is disabled and given: the search has used its rules.
C28_WitnessCategory ==
    /\ called = "prove_goal"
    /\ ~Truthy(given[4])
    /\ given[3] = Some(<<"algebraic">>)
    /\ active_rules \cap CategoryNames("algebraic") = {}
    /\ Returned
    /\ Len(TheResult.steps) >= 1

\* solve_problem on a problem without rules, subtraction_property disabled: the
\* search had no rule to use.
C28_WitnessDefault ==
    /\ called = "solve_problem"
    /\ given[3] = <<>>
    /\ active_rules = {"equality_symmetry"}
    /\ Returned
    /\ rules = <<equality_symmetry>>

\* C29: disabling is lenient where enabling is strict.  disable_rule with a
\* name that is not in the catalog raises no error and leaves the active set
\* as it is; enable_rule with such a name raises and leaves it as it is.  A
\* second disable_rule, or enable_rule, with the same name right after the
\* first changes nothing and ends as the first did.  enable_rule(n) right after
\* disable_rule(n), n in the catalog, makes n active and changes nothing else;
\* and from every active set with n active, disable_rule(n) then enable_rule(n)
\* gives that set again.
C29_LenientDisable ==
    [][/\ (called' = "disable_rule" /\ given'[1] \notin CatalogNames) =>
              /\ IsNone(raised')
              /\ active_rules' = active_rules
       /\ (called' = "enable_rule" /\ given'[1] \notin CatalogNames) =>
              /\ raised' = Some("Unknown rule: " \o given'[1])
              /\ active_rules' = active_rules
       /\ (/\ called \in {"disable_rule", "enable_rule"}
           /\ called' = called
           /\ given' = given) =>
              /\ active_rules' = active_rules
              /\ raised' = raised
              /\ returned' = returned
       /\ (/\ called = "disable_rule"
           /\ called' = "enable_rule"
           /\ given' = given
           /\ given[1] \in CatalogNames) =>
              /\ given[1] \notin active_rules
              /\ active_rules' = active_rules \cup {given[1]}
              /\ IsNone(raised')
       /\ \A n \in active_rules' \cap ToggledNames :
              enable_rule(disable_rule(active_rules', n)[2], n)
                  = <<Returning(None), active_rules'>>]_vars

\* disable_rule was called with a name that is not in the catalog, after other
\* rules had been disabled: nothing was raised.
C29_Witness ==
    /\ called = "disable_rule"
    /\ given = <<"nonexistent_rule">>
    /\ IsNone(raised)
    /\ "subtraction_property" \notin active_rules
    /\ Cardinality(active_rules) = 24

(***************************************************************************)
(* Properties of matching and substituting.                                *)
(***************************************************************************)
FactPatternVariables(fact) ==
    UNION {PatternVariables(fact.arguments[i]) : i \in DOMAIN fact.arguments}

\* C30: match round trip.  Whenever match_expression(pattern, target) returns a
\* substitution, applying it to the pattern gives the target, and the names it
\* binds are the pattern variables that occur in the pattern, no concrete
\* variable among them; whenever match_fact(pattern, target) returns one,
\* apply_to_fact gives the target fact, and the names bound are the pattern
\* variables of the pattern's arguments.
C30_MatchRoundTrip ==
    /\ (called = "match_expression" /\ ~IsNone(returned) /\ ~IsNone(TheReturned)) =>
           LET s == TheValue(TheReturned)
           IN  /\ apply_to_expression(s, given[1]) = given[2]
               /\ DOMAIN s.mappings = PatternVariables(given[1])
               /\ \A name \in DOMAIN s.mappings : IsPatternVariable(name)
    /\ (called = "match_fact" /\ ~IsNone(returned) /\ ~IsNone(TheReturned)) =>
           LET s == TheValue(TheReturned)
           IN  /\ apply_to_fact(s, given[1]) = given[2]
               /\ DOMAIN s.mappings = FactPatternVariables(given[1])
               /\ \A name \in DOMAIN s.mappings : IsPatternVariable(name)

\* match_fact has matched a pattern with an operation of two pattern variables,
\* one of them again as second argument, to a target with a concrete variable
\* at each of these places.
C30_Witness ==
    /\ called = "match_fact"
    /\ ~IsNone(returned)
    /\ ~IsNone(TheReturned)
    /\ given[1] = eq(Operation(X, "+", Y), X)
    /\ given[2] = eq(Operation(a, "+", b), a)
    /\ TheValue(TheReturned).mappings = [n \in {"X", "Y"} |-> IF n = "X" THEN a ELSE b]

\* match_expression has matched a pattern in which a concrete variable stands
\* beside a pattern variable.
C30_WitnessExpression ==
    /\ called = "match_expression"
    /\ ~IsNone(returned)
    /\ ~IsNone(TheReturned)
    /\ given[1] = Operation(X, "+", a)
    /\ DOMAIN TheValue(TheReturned).mappings = {"X"}

(***************************************************************************)
(* Properties of two threads on one instance                               *)
(***************************************************************************)

\* the thread that runs takes a step of prove: the other thread is left as it is
RunningThreadSteps == thread2' = thread2

\* the iterations the running thread has begun itself
OwnIterations == IF pc = "loop" THEN iteration ELSE iteration + 1

\* the running thread returns because its own search is stuck or its own loop
\* is exhausted
ReturnsExhausted ==
    /\ RunningThreadSteps
    /\ pc \in {"loop", "rules"}
    /\ pc' = "returned"
    /\ outcome' \in {"Stuck", "IterationLimit"}

\* C21: one instance is not safe for two threads.  Two calls of prove that
\* interleave on one ForwardChainer write and read one statistics record: a
\* call resets it whatever the other call is doing, and a call that ends stuck or
\* at the iteration limit reports as iterations_used the number found in the
\* record when it returns.  A call that runs while the other thread has not
\* called reports its own iterations and statistics, never more iterations than
\* its steps and one; interleaved, a call can report what the other call wrote
\* (the witnesses).
C21_SharedStatistics ==
    [][/\ (RunningThreadSteps /\ pc = "idle" /\ pc' # "idle")
            => stats' = ResetStatistics
       /\ ReturnsExhausted
            => TheResult'.iterations_used = stats.iterations
       /\ (ReturnsExhausted /\ thread2.pc = "idle")
            => /\ TheResult'.iterations_used = OwnIterations
               /\ TheResult'.iterations_used <= Len(TheResult'.steps) + 1
               /\ Accounted']_vars

\* A call has ended stuck or at the iteration limit and reports more iterations
\* than its steps and one: iterations the other call began.
C21_Witness ==
    /\ pc = "returned"
    /\ outcome \in {"Stuck", "IterationLimit"}
    /\ thread2.pc # "idle"
    /\ TheResult.iterations_used > Len(TheResult.steps) + 1

\* A call has ended stuck and reports no iteration at all: the other call has
\* reset the record since this one began its iteration.
C21_WitnessReset ==
    /\ pc = "returned"
    /\ outcome = "Stuck"
    /\ thread2.pc # "idle"
    /\ TheResult.iterations_used = 0

\* A call has returned and the counters tell of more derived facts than it has
\* steps: they count the derivations of the other call.
C21_WitnessCounters ==
    /\ pc = "returned"
    /\ thread2.pc # "idle"
    /\ stats.facts_derived > Len(TheResult.steps)
    /\ stats.rules_applied > Len(TheResult.steps)
====
